---- MODULE Spec2Model ----
(***************************************************************************)
(* A TLA+ model of the core of WebBot: the adapter manager and the OneBot  *)
(* WebSocket adapter, the QQ webhook endpoint (signature check, event      *)
(* de-duplication), the msg_seq counter table, the workflow engine's       *)
(* interpreter loop, the dispatch core and the scheduler service.          *)
(*                                                                         *)
(* Every subsystem has its own next-state relation and specification       *)
(* (SpecAdapter, SpecDedup, ...); all start from the one Init.  An action  *)
(* of one subsystem leaves the variables of the others unchanged.          *)
(***************************************************************************)
EXTENDS Integers, Sequences, FiniteSets, TLC

VARIABLES
    \* ---- adapter manager / adapters (src/Adapters) ----
    inst,              \* adapter instances: id -> record of the adapter's fields
    nInst,             \* number of adapter instances constructed so far
    running_adapters,  \* AdapterManager.running_adapters: bot -> instance id, 0 = absent
    start_locks,       \* AdapterManager._start_locks: bot -> caller holding it, 0 = free
    cpc,               \* caller thread -> position inside start_adapter / stop_adapter
    cbot,              \* caller thread -> bot_id argument of its current call
    chandler,          \* caller thread -> message_handler argument (TRUE = supplied)
    cinst,             \* caller thread -> the adapter instance it works on
    cret               \* caller thread -> result of its last finished call

\* The QQ webhook route (src/BluePrints/webhook)
VARIABLES
    clock,             \* wall-clock time, in hours since the start of day 0
    kv,                \* key-value store: dedup key -> expiry time, 0 = no entry
    req,               \* request thread -> the request it serves and its position
    handoffs,          \* event id -> hand-offs of it to an event processor so far
    first_at,          \* event id -> time its first delivery was handled, -1 = none
    overlapped         \* event id -> a delivery of it arrived before another was answered

adapterVars == <<inst, nInst, running_adapters, start_locks, cpc, cbot, chandler, cinst, cret>>
\* MsgSeqManager (src/Core/message/msgseq.py)
VARIABLES
    msg_counters,      \* the counter table, in insertion order: <<[id, n], ...>>
    fresh,             \* msg_ids 1..fresh have been passed to get_msg_seq
    issued,            \* the values returned for msg_id 0, in call order
    seq_ret,           \* the last value get_msg_seq returned
    last_id            \* the msg_id of the latest call with a msg_id, -1 before it

\* WorkflowEngine._run_nodes (src/Core/workflow/engine.py)
VARIABLES
    workflow_steps,    \* the step list of the workflow being executed
    items,             \* length of the list the foreach steps iterate
    epc,               \* "idle", "running" or "done"
    current_index,     \* index into workflow_steps, from 1
    visited_nodes,     \* ids of the steps visited
    loop_stack,        \* frames of the foreach loops entered
    loop_state,        \* the foreach cursor kept in the context, -1 = none
    executed,          \* step index -> times the step was executed in this run
    looped,            \* a foreach loop was entered in this run
    ended,             \* why the run stopped: "", "end", "break" or "cycle"
    item_var,          \* the context's item variable: the item's position, 0 = not set
    cond_result,       \* the context variable result, set by a condition step
    stop_sequence,     \* a step's result in this run had stop_sequence true
    current_event,     \* MessageBuilder._current_event is set during this run
    failures,          \* step failures recorded in this run
    response,          \* context._response: -1 = None, else the item the message was
                       \* rendered with (0: no item was bound)
    seen_items,        \* step index -> the item_var at each run of a send step
    outbound,          \* the messages the handler has sent for this run
    snapshot           \* the interpreter state an observer recorded in this run

\* MessageHandler._async_process_message (src/Core/message/handler.py)
VARIABLES
    dpc,               \* position of the handler: "idle", "matched", "waiting",
                       \* "processing", "sending" or "finished"
    d_in,              \* the event, the cache and the store the handler works on
    workflows,         \* ids returned by get_workflows_by_trigger
    task,              \* workflow id -> "none", "running", "finished", "processed"
    result,            \* workflow id -> what its execution returned
    pending,           \* tasks the handler still waits for
    done,              \* tasks the last asyncio.wait returned, not yet processed
    sending,           \* the workflow whose response is being sent, 0 = none
    sends,             \* workflow id -> times its response was passed to bot.send
    message_handled,   \* the handler's flag of the same name
    last_send          \* how the last send ended

\* SchedulerService (src/Core/scheduler/scheduler.py) and the Workflow table
VARIABLES
    db,                \* workflow id -> its row in the Workflow table
    scheduler_running, \* self._scheduler is set and running
    jobs,              \* self._jobs: the workflow ids with a recorded job
    jobstore,          \* the jobs of the BackgroundScheduler
    instances,         \* workflow id -> executions of its job that are active
    rpc,               \* position of reload_scheduled_workflows
    queried,           \* the rows the reload read
    to_add,            \* the rows the reload has still to go through
    before,            \* the jobs installed when the reload began
    reinstalled,       \* workflow id -> its job was installed during a run
    missed             \* workflow id -> the last tick that was not run

\* QQAPIClient, the access token (src/Adapters/qq/api_client.py)
VARIABLES
    access_token,             \* "invalid", "fresh" or "window" (the last 60 s before expiry)
    token_refreshing,  \* self._token_refreshing
    refresh_thread,    \* self._refresh_thread, 0 = None
    rth,               \* refresh thread -> its position
    tpc,               \* caller of ensure_authenticated -> its position
    tret               \* caller -> what its last call returned

\* OneBotAdapter._call_api (src/Adapters/onebot/v11/adapter.py)
VARIABLES
    api_responses,     \* self.api_responses: echo -> "none" (no entry), "ok", "failed"
    call,              \* echo -> position of the _call_api that made it
    polls,             \* echo -> iterations of the wait loop done
    answered,          \* echo -> the peer has sent its response frame
    api_data,          \* echo -> the data of the response kept under it (the echo of
                       \* the request it answers), 0 = none
    returned           \* echo -> the data the call returned, 0 = none

\* WorkflowCache (src/Core/workflow/cache.py)
VARIABLES
    cache_workflows,   \* self._workflows
    cache_lock,        \* holder of self._lock: 0 = free, -1 = reload, else a reader
    cache_pc,          \* position of reload
    fetched,           \* the rows reload has read, in priority order
    cache_before,      \* the list when the last reload began
    cache_after,       \* the list the last reload was to build
    rdpc,              \* reader -> its position
    seen               \* reader -> the list it has read

\* DataStorageNode (src/Core/workflow/nodes/storage.py)
VARIABLES
    file_locks,        \* _file_locks[storage_name]: 0 = no entry, else a lock object
    nlocks,            \* asyncio.Lock objects created
    locked,            \* lock object -> its _locked flag
    storage_file,      \* the keys in Data/<storage_name>.json
    spc,               \* execution -> its position in the node
    sop,               \* execution -> its operation
    slock,             \* execution -> the lock object _get_lock gave it
    sdata,             \* execution -> the data it has loaded
    sres               \* execution -> the success of its last operation

\* GlobalVariableManager (src/Core/workflow/globals.py)
VARIABLES
    g_db,              \* the GlobalVariable table: key -> value, 0 = no row
    g_cache,           \* GlobalVariableManager._cache: key -> value, 0 = absent
    g_kv,              \* the KV entry workflow:globals, a dumped _cache
    gpc,               \* caller -> its position in set or delete
    gcall,             \* caller -> the call it is in
    gdump              \* caller -> the text json.dumps gave it

\* WorkflowEngine.execute (src/Core/workflow/engine.py:34-88)
VARIABLES
    engine,            \* the engine object: has a workflow_id, protocols, trigger_type
    debug_recorder,    \* self.debug_recorder: 0 = None, else the execution that made it
    debug_record,      \* the KV entry workflow_debug:<workflow_id>
    xpc,               \* execution -> its position in execute
    xev,               \* execution -> its event
    xsteps,            \* execution -> steps it has executed
    xresp,             \* execution -> a step has set its context's response
    xhandled,          \* execution -> variables['_handled'] of its context is true
    xret               \* execution -> what execute returned

\* SchedulerService._async_execute_workflow (src/Core/scheduler/scheduler.py:281-365)
VARIABLES
    fpc,               \* position of the scheduled execution: "idle", "collect", "bots", "done"
    dict_pos,          \* the next key the iterator over running_adapters looks at
    dict_used,         \* the size of running_adapters when the iterator was made
    changes,           \* adapters started or stopped by other threads in this tick
    throughout,        \* the bots whose adapter has been running since the tick began
    world,             \* the tables and the adapters the execution reads
    active_bots,       \* the bots still to run, in the order of running_adapters
    executions,        \* bot -> engine executions for it in this tick
    bot_handled,       \* bot -> its execution returned handled with a response
    bot_sent,          \* bot -> messages sent through it in this tick
    handled_count      \* the counter of the same name

\* OneBotMessage: CQ-code serialisation and parsing (src/Adapters/onebot/v11/message.py)
VARIABLES
    wpc,               \* "idle", "wire" (serialised), "parsed"
    wmsg,              \* the message that was serialised
    wire,              \* str(message), a sequence of characters
    parsed             \* OneBotMessage._construct(wire)

\* BaseNode.execute and the variables of the context (src/Core/workflow/nodes/base.py)
VARIABLES
    variables,         \* context.variables at the keys a node returns: key -> value, Missing when absent
    node_result        \* what the last _execute returned

webhookVars == <<clock, kv, req, handoffs, first_at, overlapped>>
schedulerVars == <<db, scheduler_running, jobs, jobstore, instances, rpc, queried, to_add,
                   before, reinstalled, missed>>
dispatchVars == <<dpc, d_in, workflows, task, result, pending, done, sending, sends,
                  message_handled, last_send>>
msgseqVars == <<msg_counters, fresh, issued, seq_ret, last_id>>
engineVars == <<workflow_steps, items, epc, current_index, visited_nodes, loop_stack,
                loop_state, executed, looped, ended, item_var, cond_result, response,
                seen_items, outbound, stop_sequence, current_event, failures,
                snapshot>>
tokenVars == <<access_token, token_refreshing, refresh_thread, rth, tpc, tret>>
apiVars == <<api_responses, call, polls, answered, api_data, returned>>
cacheVars == <<cache_workflows, cache_lock, cache_pc, fetched, cache_before, cache_after, rdpc, seen>>
storageVars == <<file_locks, nlocks, locked, storage_file, spc, sop, slock, sdata, sres>>
globalsVars == <<g_db, g_cache, g_kv, gpc, gcall, gdump>>
executeVars == <<engine, debug_recorder, debug_record, xpc, xev, xsteps, xresp, xhandled, xret>>
fanoutVars == <<fpc, dict_pos, dict_used, changes, throughout,
               world, active_bots, executions, bot_handled, bot_sent, handled_count>>
cqVars == <<wpc, wmsg, wire, parsed>>
nodeVars == <<variables, node_result>>
nonAdapterVars ==
    <<webhookVars, msgseqVars, engineVars, dispatchVars, schedulerVars,
      tokenVars, apiVars, cacheVars, storageVars, globalsVars,
      executeVars, fanoutVars, cqVars, nodeVars>>
nonWebhookVars ==
    <<adapterVars, msgseqVars, engineVars, dispatchVars, schedulerVars,
      tokenVars, apiVars, cacheVars, storageVars, globalsVars,
      executeVars, fanoutVars, cqVars, nodeVars>>
nonMsgseqVars ==
    <<adapterVars, webhookVars, engineVars, dispatchVars, schedulerVars,
      tokenVars, apiVars, cacheVars, storageVars, globalsVars,
      executeVars, fanoutVars, cqVars, nodeVars>>
nonEngineVars ==
    <<adapterVars, webhookVars, msgseqVars, dispatchVars, schedulerVars,
      tokenVars, apiVars, cacheVars, storageVars, globalsVars,
      executeVars, fanoutVars, cqVars, nodeVars>>
nonDispatchVars ==
    <<adapterVars, webhookVars, msgseqVars, engineVars, schedulerVars,
      tokenVars, apiVars, cacheVars, storageVars, globalsVars,
      executeVars, fanoutVars, cqVars, nodeVars>>
nonSchedulerVars ==
    <<adapterVars, webhookVars, msgseqVars, engineVars, dispatchVars,
      tokenVars, apiVars, cacheVars, storageVars, globalsVars,
      executeVars, fanoutVars, cqVars, nodeVars>>
nonTokenVars ==
    <<adapterVars, webhookVars, msgseqVars, engineVars, dispatchVars,
      schedulerVars, apiVars, cacheVars, storageVars, globalsVars,
      executeVars, fanoutVars, cqVars, nodeVars>>
nonApiVars ==
    <<adapterVars, webhookVars, msgseqVars, engineVars, dispatchVars,
      schedulerVars, tokenVars, cacheVars, storageVars, globalsVars,
      executeVars, fanoutVars, cqVars, nodeVars>>
nonCacheVars ==
    <<adapterVars, webhookVars, msgseqVars, engineVars, dispatchVars,
      schedulerVars, tokenVars, apiVars, storageVars, globalsVars,
      executeVars, fanoutVars, cqVars, nodeVars>>
nonStorageVars ==
    <<adapterVars, webhookVars, msgseqVars, engineVars, dispatchVars,
      schedulerVars, tokenVars, apiVars, cacheVars, globalsVars,
      executeVars, fanoutVars, cqVars, nodeVars>>
nonGlobalsVars ==
    <<adapterVars, webhookVars, msgseqVars, engineVars, dispatchVars,
      schedulerVars, tokenVars, apiVars, cacheVars, storageVars,
      executeVars, fanoutVars, cqVars, nodeVars>>
nonExecuteVars ==
    <<adapterVars, webhookVars, msgseqVars, engineVars, dispatchVars,
      schedulerVars, tokenVars, apiVars, cacheVars, storageVars,
      globalsVars, fanoutVars, cqVars, nodeVars>>
nonFanoutVars ==
    <<adapterVars, webhookVars, msgseqVars, engineVars, dispatchVars,
      schedulerVars, tokenVars, apiVars, cacheVars, storageVars,
      globalsVars, executeVars, cqVars, nodeVars>>
nonCqVars ==
    <<adapterVars, webhookVars, msgseqVars, engineVars, dispatchVars,
      schedulerVars, tokenVars, apiVars, cacheVars, storageVars,
      globalsVars, executeVars, fanoutVars, nodeVars>>
nonNodeVars ==
    <<adapterVars, webhookVars, msgseqVars, engineVars, dispatchVars,
      schedulerVars, tokenVars, apiVars, cacheVars, storageVars,
      globalsVars, executeVars, fanoutVars, cqVars>>

(***************************************************************************)
(* Bounds of the model.                                                    *)
(***************************************************************************)
NBots == 2         \* bot ids 1..NBots
NCallers == 2      \* threads calling start_adapter / stop_adapter
MaxInst == 2       \* adapter instances constructed in one behaviour

Bots == 1..NBots
Callers == 1..NCallers
Insts == 1..MaxInst

\* The bot records' protocol column: bot 1 is a OneBot (WebSocket) bot, every
\* other bot a QQ (webhook) bot.
botProtocol(b) == IF b = 1 THEN "onebot" ELSE "qq"

(***************************************************************************)
(* Adapter instances.  BaseAdapter.__init__ and OneBotAdapter.__init__.     *)
(***************************************************************************)
NoInst ==
    [bot |-> 0, protocol |-> "none", handler |-> FALSE, running |-> FALSE,
     connected |-> FALSE, stop_flag |-> FALSE, ws_alive |-> FALSE,
     loop_alive |-> FALSE, has_bot |-> FALSE, last_error |-> FALSE]

NewAdapter(b, h) ==
    [bot |-> b, protocol |-> botProtocol(b), handler |-> h, running |-> FALSE,
     connected |-> FALSE, stop_flag |-> FALSE, ws_alive |-> FALSE,
     loop_alive |-> FALSE,
     \* QQAdapter creates its bot in __init__, OneBotAdapter on the first event
     has_bot |-> (botProtocol(b) = "qq"), last_error |-> FALSE]

InitAdapter ==
    /\ inst = [i \in Insts |-> NoInst]
    /\ nInst = 0
    /\ running_adapters = [b \in Bots |-> 0]
    /\ start_locks = [b \in Bots |-> 0]
    /\ cpc = [t \in Callers |-> "idle"]
    /\ cbot = [t \in Callers |-> 0]
    /\ chandler = [t \in Callers |-> FALSE]
    /\ cinst = [t \in Callers |-> 0]
    /\ cret = [t \in Callers |-> "none"]

(***************************************************************************)
(* AdapterManager.start_adapter (src/Adapters/__init__.py:43-99).          *)
(***************************************************************************)
Return(t, r) ==
    /\ cpc' = [cpc EXCEPT ![t] = "idle"]
    /\ cret' = [cret EXCEPT ![t] = r]
    /\ cinst' = [cinst EXCEPT ![t] = 0]
    /\ cbot' = [cbot EXCEPT ![t] = 0]
    /\ chandler' = [chandler EXCEPT ![t] = FALSE]

\* lines 46-47: a protocol that is not registered
StartUnknownProtocol(t, b) ==
    /\ cpc[t] = "idle"
    /\ cret[t] # "fail"
    /\ b \in Bots
    /\ Return(t, "fail")
    /\ UNCHANGED <<inst, nInst, running_adapters, start_locks>>
    /\ UNCHANGED nonAdapterVars

\* lines 50-53: take (or create) the bot's lock object under _locks_lock
StartCall(t, b, h) ==
    /\ cpc[t] = "idle"
    /\ cpc' = [cpc EXCEPT ![t] = "s_lock"]
    /\ cbot' = [cbot EXCEPT ![t] = b]
    /\ chandler' = [chandler EXCEPT ![t] = h]
    /\ cret' = [cret EXCEPT ![t] = "none"]
    /\ UNCHANGED <<inst, nInst, running_adapters, start_locks, cinst>>
    /\ UNCHANGED nonAdapterVars

\* line 56: with bot_lock
StartAcquire(t) ==
    /\ cpc[t] = "s_lock"
    /\ start_locks[cbot[t]] = 0
    /\ start_locks' = [start_locks EXCEPT ![cbot[t]] = t]
    /\ cpc' = [cpc EXCEPT ![t] = "s_check"]
    /\ UNCHANGED <<inst, nInst, running_adapters, cbot, chandler, cinst, cret>>
    /\ UNCHANGED nonAdapterVars

\* lines 58-80: an adapter is registered for the bot: attach the handler if one
\* is supplied and none is set, and return success either way
StartAlreadyRunning(t) ==
    LET b == cbot[t]
        e == running_adapters[b]
    IN  /\ cpc[t] = "s_check"
        /\ e # 0
        /\ inst' = IF chandler[t] /\ ~inst[e].handler
                   THEN [inst EXCEPT ![e].handler = TRUE]
                   ELSE inst
        /\ start_locks' = [start_locks EXCEPT ![b] = 0]
        /\ Return(t, "ok")
        /\ UNCHANGED <<nInst, running_adapters>>
        /\ UNCHANGED nonAdapterVars

\* lines 82-87 and 98-99: the adapter's constructor raises (its config does not
\* validate): start_adapter returns failure
StartConstructFails(t) ==
    LET b == cbot[t]
    IN  /\ cpc[t] = "s_check"
        /\ running_adapters[b] = 0
        /\ start_locks' = [start_locks EXCEPT ![b] = 0]
        /\ Return(t, "fail")
        /\ UNCHANGED <<inst, nInst, running_adapters>>
        /\ UNCHANGED nonAdapterVars

\* OneBotAdapter.start, lines 63-81 of adapter.py: the event-loop thread and the
\* WebSocket reader thread are started.  QQAdapter.start starts no thread.
BeginStart(a) ==
    IF a.protocol = "onebot"
    THEN [a EXCEPT !.loop_alive = TRUE, !.ws_alive = TRUE]
    ELSE a

\* lines 82-89: construct the adapter, set its handler, call adapter.start()
StartConstruct(t) ==
    LET b == cbot[t]
        n == nInst + 1
    IN  /\ cpc[t] = "s_check"
        /\ running_adapters[b] = 0
        /\ nInst < MaxInst
        /\ nInst' = n
        /\ inst' = [inst EXCEPT ![n] = BeginStart(NewAdapter(b, chandler[t]))]
        /\ cinst' = [cinst EXCEPT ![t] = n]
        /\ cpc' = [cpc EXCEPT ![t] = "s_wait"]
        /\ UNCHANGED <<running_adapters, start_locks, cbot, chandler, cret>>
        /\ UNCHANGED nonAdapterVars

\* What a failed start() leaves of the adapter.  OneBotAdapter.start, lines
\* 95-99: last_error is set and False returned; nothing is stopped.
FailedStart(a) == [a EXCEPT !.last_error = TRUE]

\* adapter.start() returned True (OneBot: connected was seen within the 10 s;
\* QQ: the API connection test passed), lines 89-92
StartSucceeds(t) ==
    LET b == cbot[t]
        i == cinst[t]
    IN  /\ cpc[t] = "s_wait"
        /\ inst[i].protocol = "onebot" => inst[i].connected
        /\ inst' = [inst EXCEPT ![i].running = TRUE]
        /\ running_adapters' = [running_adapters EXCEPT ![b] = i]
        /\ start_locks' = [start_locks EXCEPT ![b] = 0]
        /\ Return(t, "ok")
        /\ UNCHANGED <<nInst>>
        /\ UNCHANGED nonAdapterVars

\* adapter.start() returned False (OneBot: no connection within the 10 s; QQ:
\* the API connection test failed), lines 93-96
StartFails(t) ==
    LET b == cbot[t]
        i == cinst[t]
    IN  /\ cpc[t] = "s_wait"
        /\ inst[i].protocol = "onebot" => ~inst[i].connected
        /\ inst' = [inst EXCEPT ![i] = FailedStart(inst[i])]
        /\ start_locks' = [start_locks EXCEPT ![b] = 0]
        /\ Return(t, "fail")
        /\ UNCHANGED <<nInst, running_adapters>>
        /\ UNCHANGED nonAdapterVars

(***************************************************************************)
(* AdapterManager.stop_adapter (src/Adapters/__init__.py:101-112).  It     *)
(* takes no lock.                                                          *)
(***************************************************************************)
\* lines 103-106
StopCall(t, b) ==
    /\ cpc[t] = "idle"
    /\ IF running_adapters[b] = 0
       THEN /\ cret[t] # "ok"
            /\ Return(t, "ok")
       ELSE /\ cpc' = [cpc EXCEPT ![t] = "p_stop"]
            /\ cbot' = [cbot EXCEPT ![t] = b]
            /\ cinst' = [cinst EXCEPT ![t] = running_adapters[b]]
            /\ cret' = [cret EXCEPT ![t] = "none"]
            /\ UNCHANGED chandler
    /\ UNCHANGED <<inst, nInst, running_adapters, start_locks>>
    /\ UNCHANGED nonAdapterVars

\* OneBotAdapter.stop (adapter.py:107-143) and QQAdapter.stop: the stop flag is
\* set, the socket closed, the reader thread joined, the event loop stopped
StoppedAdapter(a) ==
    [a EXCEPT !.stop_flag = (a.protocol = "onebot"), !.running = FALSE,
              !.connected = FALSE, !.ws_alive = FALSE, !.loop_alive = FALSE]

\* line 107
StopAdapter(t) ==
    /\ cpc[t] = "p_stop"
    /\ inst' = [inst EXCEPT ![cinst[t]] = StoppedAdapter(inst[cinst[t]])]
    /\ cpc' = [cpc EXCEPT ![t] = "p_del"]
    /\ UNCHANGED <<nInst, running_adapters, start_locks, cbot, chandler, cinst, cret>>
    /\ UNCHANGED nonAdapterVars

\* lines 109-112: del self.running_adapters[bot_id]; a KeyError when another
\* stop_adapter has removed the entry meanwhile
StopDel(t) ==
    LET b == cbot[t]
    IN  /\ cpc[t] = "p_del"
        /\ running_adapters' = [running_adapters EXCEPT ![b] = 0]
        /\ Return(t, IF running_adapters[b] = 0 THEN "error" ELSE "ok")
        /\ UNCHANGED <<inst, nInst, start_locks>>
        /\ UNCHANGED nonAdapterVars

(***************************************************************************)
(* The WebSocket reader thread of a OneBot adapter (adapter.py:160-303).   *)
(***************************************************************************)
\* _on_open, lines 180-183: run_forever (re)connected
WsOpen(i) ==
    /\ inst[i].ws_alive /\ ~inst[i].connected
    /\ inst' = [inst EXCEPT ![i].connected = TRUE]
    /\ UNCHANGED <<nInst, running_adapters, start_locks, cpc, cbot, chandler, cinst, cret>>
    /\ UNCHANGED nonAdapterVars

\* _on_close, lines 295-303: the connection is lost; run_forever(reconnect=5)
\* keeps the thread alive and reconnects
WsClose(i) ==
    /\ inst[i].ws_alive /\ inst[i].connected
    /\ inst' = [inst EXCEPT ![i].connected = FALSE]
    /\ UNCHANGED <<nInst, running_adapters, start_locks, cpc, cbot, chandler, cinst, cret>>
    /\ UNCHANGED nonAdapterVars

\* _on_message, lines 185-286: an event frame; the bot is created on the first
\* one and bot.handle_event(event) is submitted to the adapter's event loop
WsMessage(i) ==
    /\ inst[i].ws_alive /\ inst[i].connected
    /\ ~inst[i].has_bot
    /\ inst' = [inst EXCEPT ![i].has_bot = TRUE]
    /\ UNCHANGED <<nInst, running_adapters, start_locks, cpc, cbot, chandler, cinst, cret>>
    /\ UNCHANGED nonAdapterVars

\* _run_websocket, lines 171-178: run_forever raised or returned
WsCrash(i) ==
    /\ inst[i].ws_alive
    /\ inst' = [inst EXCEPT ![i].ws_alive = FALSE, ![i].connected = FALSE,
                            ![i].running = IF inst[i].stop_flag THEN @ ELSE FALSE]
    /\ UNCHANGED <<nInst, running_adapters, start_locks, cpc, cbot, chandler, cinst, cret>>
    /\ UNCHANGED nonAdapterVars

NextAdapter ==
    \/ \E t \in Callers, b \in Bots : StartUnknownProtocol(t, b)
    \/ \E t \in Callers, b \in Bots, h \in BOOLEAN : StartCall(t, b, h)
    \/ \E t \in Callers : StartAcquire(t)
    \/ \E t \in Callers : StartAlreadyRunning(t)
    \/ \E t \in Callers : StartConstructFails(t)
    \/ \E t \in Callers : StartConstruct(t)
    \/ \E t \in Callers : StartSucceeds(t)
    \/ \E t \in Callers : StartFails(t)
    \/ \E t \in Callers, b \in Bots : StopCall(t, b)
    \/ \E t \in Callers : StopAdapter(t)
    \/ \E t \in Callers : StopDel(t)
    \/ \E i \in Insts : WsOpen(i)
    \/ \E i \in Insts : WsClose(i)
    \/ \E i \in Insts : WsMessage(i)
    \/ \E i \in Insts : WsCrash(i)

(***************************************************************************)
(* The QQ webhook route: BaseWebhookHandler.process_webhook                *)
(* (src/BluePrints/webhook/base.py:90-206) and QQWebhookHandler            *)
(* (src/BluePrints/webhook/qq/handler.py).  The server handles requests in *)
(* threads; a request's position is req[r].pc.                             *)
(***************************************************************************)
NReq == 2          \* requests handled at the same time
TickStep == 12     \* hours the clock advances in one step
MaxClock == 36     \* the clock stops here
DedupTTL == 24     \* expire_seconds=86400, in hours
HoursPerDay == 24  \* the dedup key holds the calendar day, %Y%m%d

Reqs == 1..NReq
EventIds == {"E1"}
Days == 0..(MaxClock \div HoursPerDay)
DedupKeys == Days \X EventIds

\* The body is the same for every delivery of an event id, so its type is
\* fixed: the events with an id are messages, those without one of a type that
\* has no processor
eventType(e) == IF e = "" THEN "UNHANDLED_TYPE" ELSE "C2C_MESSAGE_CREATE"

IdleReq == [pc |-> "idle", eid |-> "", code |-> 0, status |-> "", reached |-> "none",
            verified |-> FALSE, delivery |-> "none"]

InitWebhook ==
    /\ clock = 0
    /\ kv = [k \in DedupKeys |-> 0]
    /\ req = [r \in Reqs |-> IdleReq]
    /\ handoffs = [e \in EventIds |-> 0]
    /\ first_at = [e \in EventIds |-> -1]
    /\ overlapped = [e \in EventIds |-> FALSE]

\* _get_event_redis_key, handler.py:36-39
get_event_redis_key(e) == <<clock \div HoursPerDay, e>>

\* _is_duplicate_event, handler.py:41-48, over get_value (client.py:239-265):
\* an entry that has not expired
is_duplicate_event(e) ==
    /\ kv[get_event_redis_key(e)] # 0
    /\ kv[get_event_redis_key(e)] > clock

\* _record_event, handler.py:50-57: set_value(key, "true", expire_seconds=86400)
record_event(e) == [kv EXCEPT ![get_event_redis_key(e)] = clock + DedupTTL]

\* get_bot_secret, handler.py:259-266: the stored app_secret, or None when the
\* bot's config is not returned or the lookup raises ("" stands for None)
get_bot_secret(cfg) == IF cfg = "ok" THEN "key" ELSE ""

\* The app_secret of the bot's stored record, which
\* generate_verification_signature reads itself (handler.py:155-172)
stored_secret(cfg) == IF cfg = "empty" THEN "" ELSE "key"

\* verify_signature and _verify_ed25519_simple, handler.py:70-139: both
\* signature headers are present and the signature was made with the key
\* derived from `secret` ("none": a header is missing)
verify_signature(sig, secret) == sig # "none" /\ sig = secret

Reply(c, st, reach, ver) == [code |-> c, status |-> st, reached |-> reach, verified |-> ver]

\* handle_verification_request, base.py:213-254, with
\* generate_verification_signature, handler.py:141-190
handle_verification_request(token, stored, ver) ==
    IF ~token THEN Reply(400, "error", "none", ver)
    ELSE IF stored = "" THEN Reply(500, "error", "none", ver)
    ELSE Reply(200, "handshake", "handshake", ver)

\* The signature step, base.py:147-152 and 186-191: TRUE when the request is
\* turned away with 401
SignatureRejected(secret, sig) == secret # "" /\ ~verify_signature(sig, secret)

\* process_webhook up to the call of handle_event, base.py:90-194.  q is the
\* request: op, X-Bot-Appid (appid), whether the bot is running (enabled), what
\* the lookup of its config gives (cfg), the key the signature was made with
\* (sig), and whether the body holds plain_token and event_ts (token).
\* status "" with code 0: the request goes on to handle_event.
process_webhook(q) ==
    LET secret == get_bot_secret(q.cfg)
        ver == secret # "" /\ verify_signature(q.sig, secret)
    IN  IF q.appid = "" THEN Reply(400, "error", "none", FALSE)
        ELSE IF q.appid = "unknown" THEN Reply(404, "error", "none", FALSE)
        ELSE IF q.op = 13
             THEN IF SignatureRejected(secret, q.sig)
                  THEN Reply(401, "error", "none", FALSE)
                  ELSE handle_verification_request(q.token, stored_secret(q.cfg), ver)
        ELSE IF ~q.enabled THEN Reply(200, "ignored", "none", FALSE)
        ELSE IF SignatureRejected(secret, q.sig)
             THEN Reply(401, "error", "none", FALSE)
        ELSE Reply(0, "", "handle_event", ver)

\* The requests of the model: those the route turns away before it looks at
\* the signature, callback verifications (op 13) and events (op 0)
Requests ==
    [op : {0, 13}, appid : {"", "unknown"}, enabled : {FALSE}, cfg : {"ok"},
     sig : {"bad"}, token : {TRUE}, eid : {""}]
    \cup [op : {0}, appid : {"known"}, enabled : {FALSE}, cfg : {"ok"},
          sig : {"bad"}, token : {TRUE}, eid : {""}]
    \cup [op : {13}, appid : {"known"}, enabled : {TRUE},
          cfg : {"ok", "empty", "lookup_failed"}, sig : {"none", "bad", "key"},
          token : BOOLEAN, eid : {""}]
    \cup [op : {0}, appid : {"known"}, enabled : {TRUE},
          cfg : {"ok", "empty", "lookup_failed"}, sig : {"none", "bad", "key"},
          token : {TRUE}, eid : EventIds \cup {""}]

\* Which delivery of its event a request is: the first, a replay within the
\* 24 hours after the first, or a later one
Delivery(e) ==
    IF first_at[e] = -1 THEN "first"
    ELSE IF clock - first_at[e] < DedupTTL THEN "replay"
    ELSE "late"

\* A request arrives and runs process_webhook up to its reply or to handle_event
Receive(r, q) ==
    LET p == process_webhook(q)
        e == q.eid
        goes == p.reached = "handle_event"
    IN  /\ req[r].pc = "idle"
        /\ req' = [req EXCEPT ![r] =
                     [pc |-> IF goes THEN "check" ELSE "done",
                      eid |-> IF goes THEN e ELSE "",
                      code |-> p.code, status |-> p.status, reached |-> p.reached,
                      verified |-> p.verified, delivery |-> "none"]]
        /\ overlapped' = IF goes /\ e # "" /\ \E o \in Reqs : req[o].pc # "idle" /\ req[o].eid = e
                         THEN [overlapped EXCEPT ![e] = TRUE]
                         ELSE overlapped
        /\ UNCHANGED <<clock, kv, handoffs, first_at>>
        /\ UNCHANGED nonWebhookVars

\* handle_event, handler.py:279-284: the dedup check
HandleEventCheck(r) ==
    LET e == req[r].eid
    IN  /\ req[r].pc = "check"
        /\ req' = [req EXCEPT ![r] =
                     IF e = "" THEN [@ EXCEPT !.pc = "route"]
                     ELSE IF is_duplicate_event(e)
                     THEN [@ EXCEPT !.pc = "done", !.code = 200, !.status = "duplicate",
                                    !.delivery = Delivery(e)]
                     ELSE [@ EXCEPT !.pc = "record", !.delivery = Delivery(e)]]
        /\ first_at' = IF e # "" /\ first_at[e] = -1
                       THEN [first_at EXCEPT ![e] = clock]
                       ELSE first_at
        /\ UNCHANGED <<clock, kv, handoffs, overlapped>>
        /\ UNCHANGED nonWebhookVars

\* handle_event, handler.py:286-290: the event id is recorded
RecordEvent(r) ==
    /\ req[r].pc = "record"
    /\ kv' = record_event(req[r].eid)
    /\ req' = [req EXCEPT ![r].pc = "route"]
    /\ UNCHANGED <<clock, handoffs, first_at, overlapped>>
    /\ UNCHANGED nonWebhookVars

\* handle_event, handler.py:311-366: the event is routed to its processor, which
\* hands it to the bot's handler (events.py:46-105) and answers success; an
\* event type without a processor is ignored
RouteEvent(r) ==
    LET e == req[r].eid
        known == eventType(e) = "C2C_MESSAGE_CREATE"
    IN  /\ req[r].pc = "route"
        /\ req' = [req EXCEPT ![r].pc = "done", ![r].code = 200,
                              ![r].status = IF known THEN "success" ELSE "ignored"]
        /\ handoffs' = IF known
                       THEN [handoffs EXCEPT ![e] = @ + 1]
                       ELSE handoffs
        /\ UNCHANGED <<clock, kv, first_at, overlapped>>
        /\ UNCHANGED nonWebhookVars

\* The reply is sent and the thread takes the next request
Respond(r) ==
    /\ req[r].pc = "done"
    /\ req' = [req EXCEPT ![r] = IdleReq]
    /\ UNCHANGED <<clock, kv, handoffs, first_at, overlapped>>
    /\ UNCHANGED nonWebhookVars

\* Time passes; the store drops the entries whose TTL has run out
Tick ==
    /\ clock + TickStep <= MaxClock
    /\ clock' = clock + TickStep
    /\ kv' = [k \in DedupKeys |-> IF kv[k] <= clock + TickStep THEN 0 ELSE kv[k]]
    /\ UNCHANGED <<req, handoffs, first_at, overlapped>>
    /\ UNCHANGED nonWebhookVars

NextWebhook ==
    \/ \E r \in Reqs, q \in Requests : Receive(r, q)
    \/ \E r \in Reqs : HandleEventCheck(r)
    \/ \E r \in Reqs : RecordEvent(r)
    \/ \E r \in Reqs : RouteEvent(r)
    \/ \E r \in Reqs : Respond(r)
    \/ Tick

(***************************************************************************)
(* MsgSeqManager (src/Core/message/msgseq.py).  get_msg_seq runs under the *)
(* manager's lock, so a call is one step.  The calls of the model are on   *)
(* msg_id 0, whose replies are watched, on msg_ids never seen before       *)
(* (1, 2, ... in this order), and without a msg_id.                        *)
(***************************************************************************)
max_msg_ids == 100     \* MsgSeqManager.max_msg_ids
MaxFresh == 101        \* msg_ids other than 0 used in one behaviour
MaxIssued == 3         \* calls on msg_id 0 in one behaviour

InitMsgSeq ==
    /\ msg_counters = <<>>
    /\ fresh = 0
    /\ issued = <<>>
    /\ seq_ret = 0
    /\ last_id = -1

HasCounter(t, id) == \E i \in 1..Len(t) : t[i].id = id
CounterIndex(t, id) == CHOOSE i \in 1..Len(t) : t[i].id = id

\* A table that is never cleaned
NoCleanup(t) == t

\* _cleanup_old_counters, lines 53-58: over the limit, the entry inserted first
\* is deleted
cleanup_old_counters(t) == IF Len(t) > max_msg_ids THEN Tail(t) ELSE t

\* get_msg_seq, lines 42-49: the table after a call with a msg_id
counted(t, id) ==
    IF ~HasCounter(t, id)
    THEN cleanup_old_counters(Append(t, [id |-> id, n |-> 1]))
    ELSE [t EXCEPT ![CounterIndex(t, id)].n = @ + 1]

\* get_msg_seq, line 51: the value returned
get_msg_seq(t, id) == counted(t, id)[CounterIndex(counted(t, id), id)].n

\* get_msg_seq(msg_id) for the watched msg_id
GetMsgSeqWatched ==
    /\ Len(issued) < MaxIssued
    /\ msg_counters' = counted(msg_counters, 0)
    /\ seq_ret' = get_msg_seq(msg_counters, 0)
    /\ issued' = Append(issued, get_msg_seq(msg_counters, 0))
    /\ last_id' = 0
    /\ UNCHANGED fresh
    /\ UNCHANGED nonMsgseqVars

\* get_msg_seq(msg_id) for a msg_id not seen before
GetMsgSeqFresh ==
    /\ fresh < MaxFresh
    /\ fresh' = fresh + 1
    /\ msg_counters' = counted(msg_counters, fresh + 1)
    /\ seq_ret' = get_msg_seq(msg_counters, fresh + 1)
    /\ last_id' = fresh + 1
    /\ UNCHANGED issued
    /\ UNCHANGED nonMsgseqVars

\* get_msg_seq(None), lines 35-40: timestamp_part * 1000 + random_part
GetMsgSeqNoId(timestamp_part, random_part) ==
    /\ seq_ret' = timestamp_part * 1000 + random_part
    /\ seq_ret' # seq_ret
    /\ UNCHANGED <<msg_counters, fresh, issued, last_id>>
    /\ UNCHANGED nonMsgseqVars

NextMsgSeq ==
    \/ GetMsgSeqWatched
    \/ GetMsgSeqFresh
    \/ \E timestamp_part \in {0, 999}, random_part \in {100, 999} :
           GetMsgSeqNoId(timestamp_part, random_part)

(***************************************************************************)
(* WorkflowEngine._run_nodes (src/Core/workflow/engine.py:90-234).  A step *)
(* is [type, body, next]; the id of the step at index i is i.  Type "node" *)
(* stands for every node whose result the engine treats alike: what it     *)
(* returns is chosen when it runs; on_fail says that the step declares the *)
(* on_fail action send_message.  "foreach" is ForeachNode, "end" is        *)
(* EndNode.  body and next are step ids, 0 for none; an id above the       *)
(* length of the list names no step.                                       *)
(***************************************************************************)
MaxSteps == 3      \* steps of a workflow
MaxItems == 2      \* items of the list a foreach iterates
MaxRun == 9        \* steps executed in one run

StepIds == 1..MaxSteps
Steps ==
    [type : {"node"}, body : {0}, next : {0}, on_fail : BOOLEAN]
    \cup [type : {"end"}, body : {0}, next : {0}]
    \cup [type : {"foreach"}, body : StepIds, next : {0} \cup StepIds]
Workflows == UNION {[1..n -> Steps] : n \in 1..MaxSteps}

\* no state recorded
NoSnapshot == [at |-> -1, state |-> <<>>]

InitEngine ==
    /\ workflow_steps = <<>>
    /\ items = 0
    /\ epc = "idle"
    /\ current_index = 0
    /\ visited_nodes = {}
    /\ loop_stack = <<>>
    /\ loop_state = -1
    /\ executed = [i \in StepIds |-> 0]
    /\ looped = FALSE
    /\ ended = ""
    /\ item_var = 0
    /\ cond_result = FALSE
    /\ stop_sequence = FALSE
    /\ current_event = FALSE
    /\ failures = 0
    /\ response = -1
    /\ seen_items = [i \in StepIds |-> <<>>]
    /\ outbound = <<>>
    /\ snapshot = NoSnapshot

\* node_index_map, line 92
InIndexMap(id) == id \in 1..Len(workflow_steps)

Executed(i) == [executed EXCEPT ![i] = @ + 1]

RECURSIVE SumTo(_, _)
SumTo(f, n) == IF n = 0 THEN 0 ELSE f[n] + SumTo(f, n - 1)
TotalExecuted == SumTo(executed, MaxSteps)

\* execute, lines 62-64: _run_nodes starts on a fresh context, for any workflow
\* and any list
StartRun ==
    /\ epc = "idle"
    /\ \E w \in Workflows : workflow_steps' = w
    /\ \E n \in 0..MaxItems : items' = n
    /\ epc' = "running"
    /\ current_index' = 1
    /\ visited_nodes' = {}
    /\ loop_stack' = <<>>
    /\ loop_state' = -1
    /\ executed' = [i \in StepIds |-> 0]
    /\ looped' = FALSE
    /\ ended' = ""
    /\ item_var' = 0
    /\ cond_result' = FALSE
    /\ stop_sequence' = FALSE
    /\ \E set \in BOOLEAN : current_event' = set
    /\ failures' = 0
    /\ response' = -1
    /\ seen_items' = [i \in StepIds |-> <<>>]
    /\ outbound' = <<>>
    /\ snapshot' = NoSnapshot
    /\ UNCHANGED nonEngineVars

Running == epc = "running" /\ current_index <= Len(workflow_steps)

\* line 97: the index has left the list
RunOffEnd ==
    /\ epc = "running"
    /\ current_index > Len(workflow_steps)
    /\ epc' = "done"
    /\ ended' = "end"
    /\ UNCHANGED <<workflow_steps, items, current_index, visited_nodes, loop_stack,
                   loop_state, executed, looped>>
    /\ UNCHANGED <<item_var, cond_result, response, seen_items, outbound, stop_sequence,
                   current_event, failures>>
    /\ UNCHANGED snapshot
    /\ UNCHANGED nonEngineVars

\* An engine without the cycle check
NeverVisited(id, visited) == FALSE

\* The test of lines 103-105: the step's id is in visited_nodes
AlreadyVisited(id, visited) == id \in visited

\* lines 103-105: cycle detected, the loop is left
AbortVisited ==
    /\ Running
    /\ AlreadyVisited(current_index, visited_nodes)
    /\ epc' = "done"
    /\ ended' = "cycle"
    /\ UNCHANGED <<workflow_steps, items, current_index, visited_nodes, loop_stack,
                   loop_state, executed, looped>>
    /\ UNCHANGED <<item_var, cond_result, response, seen_items, outbound, stop_sequence,
                   current_event, failures>>
    /\ UNCHANGED snapshot
    /\ UNCHANGED nonEngineVars

\* _handle_loop_return, lines 206-227, without loop_end: TRUE when control
\* goes back to the foreach on top of the stack
should_return(cur, visited) ==
    LET next_index == cur + 1
        top == loop_stack[Len(loop_stack)]
    IN  \/ next_index > Len(workflow_steps)
        \/ next_index <= top.foreach_index
        \/ workflow_steps[next_index].type = "end"
        \/ next_index \in visited

\* _handle_loop_return, lines 229-234: the marks of the foreach and of the
\* steps from the loop body to the current one are removed
unvisit_loop(cur, visited) ==
    LET top == loop_stack[Len(loop_stack)]
    IN  visited \ ({top.foreach_id} \cup
                   {i \in 1..Len(workflow_steps) : top.loop_body_index <= i /\ i <= cur})

\* lines 146-153: after a step that did not jump, return to the enclosing
\* foreach or advance by one
ReturnOrAdvance(visited) ==
    IF loop_stack # <<>> /\ should_return(current_index, visited)
    THEN /\ current_index' = loop_stack[Len(loop_stack)].foreach_index
         /\ loop_stack' = SubSeq(loop_stack, 1, Len(loop_stack) - 1)
         /\ visited_nodes' = unvisit_loop(current_index, visited)
    ELSE /\ current_index' = current_index + 1
         /\ loop_stack' = loop_stack
         /\ visited_nodes' = visited

\* lines 138-144: a result with next_node; a target that names no step is
\* logged and the step goes on as without one
JumpOrAdvance(next_id, visited) ==
    IF next_id # 0 /\ InIndexMap(next_id)
    THEN /\ current_index' = next_id
         /\ loop_stack' = loop_stack
         /\ visited_nodes' = visited
    ELSE ReturnOrAdvance(visited)

CanExecute ==
    /\ Running
    /\ ~AlreadyVisited(current_index, visited_nodes)
    /\ TotalExecuted < MaxRun

\* lines 106-153 for a step of type "node" whose result is plain or names a
\* next_node (0: none)
ExecNode(next_id) ==
    /\ CanExecute
    /\ workflow_steps[current_index].type = "node"
    /\ executed' = Executed(current_index)
    /\ JumpOrAdvance(next_id, visited_nodes \cup {current_index})
    /\ UNCHANGED <<workflow_steps, items, epc, loop_state, looped, ended>>
    /\ UNCHANGED <<item_var, cond_result, response, seen_items, outbound, stop_sequence,
                   current_event, failures>>
    /\ UNCHANGED snapshot
    /\ UNCHANGED nonEngineVars

\* lines 125-126: should_break; an end step always breaks, a node may
ExecBreak ==
    /\ CanExecute
    /\ workflow_steps[current_index].type \in {"node", "end"}
    /\ executed' = Executed(current_index)
    /\ visited_nodes' = visited_nodes \cup {current_index}
    /\ epc' = "done"
    /\ ended' = "break"
    /\ UNCHANGED <<workflow_steps, items, current_index, loop_stack, loop_state, looped>>
    /\ UNCHANGED <<item_var, cond_result, response, seen_items, outbound, stop_sequence,
                   current_event, failures>>
    /\ UNCHANGED snapshot
    /\ UNCHANGED nonEngineVars

\* lines 155-169 and _handle_error (256-269): the step raises; the failure is
\* recorded, the on_fail action send_message puts its message (-2) in the
\* context's response, and the index advances by one.  The message is built
\* by MessageBuilder.text(message) without an event, which raises when no
\* current event is set (builder.py:83-86): that exception leaves _run_nodes
\* and is caught by execute (lines 82-88), which returns handled False.
ExecRaise ==
    LET step == workflow_steps[current_index]
    IN  /\ CanExecute
        /\ step.type = "node"
        /\ executed' = Executed(current_index)
        /\ visited_nodes' = visited_nodes \cup {current_index}
        /\ failures' = failures + 1
        /\ IF step.on_fail /\ ~current_event
           THEN /\ epc' = "done"
                /\ ended' = "error"
                /\ UNCHANGED <<current_index, response>>
           ELSE /\ current_index' = current_index + 1
                /\ response' = IF step.on_fail THEN -2 ELSE response
                /\ UNCHANGED <<epc, ended>>
        /\ UNCHANGED <<workflow_steps, items, loop_stack, loop_state, looped>>
        /\ UNCHANGED <<item_var, cond_result, seen_items, outbound, stop_sequence,
                       current_event>>
        /\ UNCHANGED snapshot
        /\ UNCHANGED nonEngineVars

\* ForeachNode._execute (nodes/loop.py:83-174) and lines 129-135 with
\* _handle_loop_start (189-204)
ExecForeach ==
    LET step == workflow_steps[current_index]
        visited == visited_nodes \cup {current_index}
        cursor == IF loop_state = -1 THEN 0 ELSE loop_state
    IN  /\ CanExecute
        /\ step.type = "foreach"
        /\ executed' = Executed(current_index)
        /\ IF items = 0
           THEN \* loop.py:108-113: empty list
                /\ JumpOrAdvance(step.next, visited)
                /\ UNCHANGED <<loop_state, looped, item_var>>
           ELSE IF cursor >= items
           THEN \* loop.py:138-149: exhausted, the cursor is cleared
                /\ loop_state' = -1
                /\ JumpOrAdvance(step.next, visited)
                /\ UNCHANGED <<looped, item_var>>
           ELSE \* loop.py:151-174: the next item; the result asks for the body
                /\ loop_state' = cursor + 1
                /\ item_var' = cursor + 1
                /\ IF InIndexMap(step.body)
                   THEN /\ loop_stack' = Append(loop_stack,
                                                [foreach_index |-> current_index,
                                                 foreach_id |-> current_index,
                                                 loop_body_index |-> step.body])
                        /\ visited_nodes' = visited \ {step.body}
                        /\ current_index' = step.body
                        /\ looped' = TRUE
                   ELSE /\ ReturnOrAdvance(visited)
                        /\ UNCHANGED looped
        /\ UNCHANGED <<workflow_steps, items, epc, ended>>
        /\ UNCHANGED <<cond_result, response, seen_items, outbound, stop_sequence, current_event, failures>>
        /\ UNCHANGED snapshot
        /\ UNCHANGED nonEngineVars

\* SendMessageNode._execute (nodes/actions.py:108-164) on a protocol that
\* supports the message type, with the content {{item}}: the message is built
\* and kept as the context's response
ExecSend ==
    LET step == workflow_steps[current_index]
    IN  /\ CanExecute
        /\ step.type = "send"
        /\ executed' = Executed(current_index)
        /\ seen_items' = [seen_items EXCEPT ![current_index] = Append(@, item_var)]
        /\ response' = item_var
        /\ JumpOrAdvance(step.next, visited_nodes \cup {current_index})
        /\ UNCHANGED <<workflow_steps, items, epc, loop_state, looped, ended>>
        /\ UNCHANGED <<item_var, cond_result, outbound, stop_sequence, current_event, failures>>
        /\ UNCHANGED snapshot
        /\ UNCHANGED nonEngineVars

\* A condition step that never ends the run
NeverBreak(condition_result, next_node) == FALSE

\* ConditionNode.should_break (nodes/condition.py:325-337)
should_break(condition_result, next_node) == ~condition_result /\ next_node = 0

\* ConditionNode._build_result (nodes/condition.py:308-323) for either result
\* of the evaluation, and lines 125-153 of the engine
ExecCondition(condition_result) ==
    LET step == workflow_steps[current_index]
        next_node == IF condition_result THEN step.true_branch ELSE step.false_branch
    IN  /\ CanExecute
        /\ step.type = "condition"
        /\ executed' = Executed(current_index)
        /\ cond_result' = condition_result
        \* _execute_simple, lines 200-208: stop_sequence is stop_after_branch; no
        \* line of the engine reads it
        /\ stop_sequence' = (stop_sequence \/ step.stop_after_branch)
        /\ IF should_break(condition_result, next_node)
           THEN /\ visited_nodes' = visited_nodes \cup {current_index}
                /\ epc' = "done"
                /\ ended' = "break"
                /\ UNCHANGED <<current_index, loop_stack>>
           ELSE /\ JumpOrAdvance(next_node, visited_nodes \cup {current_index})
                /\ UNCHANGED <<epc, ended>>
        /\ UNCHANGED <<workflow_steps, items, loop_state, looped>>
        /\ UNCHANGED <<item_var, response, seen_items, outbound, current_event, failures>>
        /\ UNCHANGED snapshot
        /\ UNCHANGED nonEngineVars

\* execute, lines 66-80, and the handler (handler.py:119-130): the run's
\* result carries the context's response, which the handler sends if there is one
SendResponse ==
    /\ epc = "done"
    /\ epc' = "sent"
    /\ outbound' = IF response # -1 /\ ended # "error"
                   THEN Append(outbound, response)
                   ELSE outbound
    /\ UNCHANGED <<workflow_steps, items, current_index, visited_nodes, loop_stack,
                   loop_state, executed, looped, ended>>
    /\ UNCHANGED <<item_var, cond_result, response, seen_items, stop_sequence, current_event, failures>>
    /\ UNCHANGED snapshot
    /\ UNCHANGED nonEngineVars

\* the handler is done with the event
FinishRun ==
    /\ epc = "sent"
    /\ epc' = "idle"
    /\ workflow_steps' = <<>>
    /\ items' = 0
    /\ current_index' = 0
    /\ visited_nodes' = {}
    /\ loop_stack' = <<>>
    /\ loop_state' = -1
    /\ executed' = [i \in StepIds |-> 0]
    /\ looped' = FALSE
    /\ ended' = ""
    /\ item_var' = 0
    /\ cond_result' = FALSE
    /\ stop_sequence' = FALSE
    /\ current_event' = FALSE
    /\ failures' = 0
    /\ response' = -1
    /\ seen_items' = [i \in StepIds |-> <<>>]
    /\ outbound' = <<>>
    /\ snapshot' = NoSnapshot
    /\ UNCHANGED nonEngineVars

\* The workflows of send, condition, foreach and end steps.  A condition
\* step is [type, true_branch, false_branch, stop_after_branch], the branches
\* step ids or 0.
FlowSteps ==
    [type : {"end"}, body : {0}, next : {0}]
    \cup [type : {"send"}, body : {0}, next : {0}]
    \cup [type : {"foreach"}, body : StepIds, next : {0} \cup StepIds]
    \cup [type : {"condition"}, true_branch : {0} \cup StepIds,
                               false_branch : {0} \cup StepIds,
                               stop_after_branch : BOOLEAN]
Flows == UNION {[1..n -> FlowSteps] : n \in 1..MaxSteps}

\* execute, lines 62-64, for a workflow of these steps
StartFlow ==
    /\ epc = "idle"
    /\ \E w \in Flows : workflow_steps' = w
    /\ \E n \in 0..MaxItems : items' = n
    /\ epc' = "running"
    /\ current_index' = 1
    /\ visited_nodes' = {}
    /\ loop_stack' = <<>>
    /\ loop_state' = -1
    /\ executed' = [i \in StepIds |-> 0]
    /\ looped' = FALSE
    /\ ended' = ""
    /\ item_var' = 0
    /\ cond_result' = FALSE
    /\ stop_sequence' = FALSE
    /\ current_event' = TRUE
    /\ failures' = 0
    /\ response' = -1
    /\ seen_items' = [i \in StepIds |-> <<>>]
    /\ outbound' = <<>>
    /\ snapshot' = NoSnapshot
    /\ UNCHANGED nonEngineVars

NextFlow ==
    \/ StartFlow
    \/ RunOffEnd
    \/ AbortVisited
    \/ ExecBreak
    \/ ExecSend
    \/ \E condition_result \in BOOLEAN : ExecCondition(condition_result)
    \/ ExecForeach
    \/ SendResponse
    \/ FinishRun

\* the state the interpreter loop goes on from: the steps and the list, the
\* index, the visited set, the loop stack and the context's variables
InterpreterState ==
    <<workflow_steps, items, current_index, visited_nodes, loop_stack, loop_state,
      item_var, cond_result, response, stop_sequence, current_event, ended>>

\* an observer records the interpreter's state, once in a run
Observe ==
    /\ epc = "running"
    /\ snapshot = NoSnapshot
    /\ snapshot' = [at |-> TotalExecuted, state |-> InterpreterState]
    /\ UNCHANGED <<workflow_steps, items, epc, current_index, visited_nodes, loop_stack,
                   loop_state, executed, looped, ended, item_var, cond_result, response,
                   seen_items, outbound, stop_sequence, current_event, failures>>
    /\ UNCHANGED nonEngineVars

NextEngine ==
    \/ StartRun
    \/ RunOffEnd
    \/ AbortVisited
    \/ \E next_id \in 0..(MaxSteps + 1) : ExecNode(next_id)
    \/ ExecBreak
    \/ ExecRaise
    \/ ExecForeach
    \/ SendResponse
    \/ FinishRun

NextTermination ==
    \/ NextEngine
    \/ Observe

(***************************************************************************)
(* Dispatch of an event to the workflows: MessageHandler                   *)
(* (src/Core/message/handler.py) over WorkflowCache.get_workflows_by_trigger*)
(* (src/Core/workflow/cache.py:143-189).  The workflows run as tasks of    *)
(* one event loop; they make progress while the handler awaits.            *)
(***************************************************************************)
NWf == 2           \* workflows in the cache

Wfs == 1..NWf
WfConfigs == [trigger_type : {"message", "notice"}, protocols : {{}, {"qq"}},
              event_filter : {{}, {"poke"}}]
\* An event: its kind, the protocol of its bot and its sub-name (notice_type)
Events ==
    [kind : {"meta"}, protocol : {"qq"}, sub_name : {""}]
    \cup [kind : {"message"}, protocol : {"qq", "onebot"}, sub_name : {""}]
    \cup [kind : {"notice"}, protocol : {"qq", "onebot"}, sub_name : {"", "poke", "other"}]
\* What the handler works on: the event, the cached (enabled) workflows, the
\* workflows the bot's owner has an enabled subscription to, whether the
\* lookup of the bot's owner gives the owner (owner_id, 0 for None), and
\* whether the query of the subscriptions succeeds
Inputs ==
    [event : Events, cache : [Wfs -> WfConfigs], subscribed : SUBSET Wfs,
     owner_id : {0, 1}, query_ok : BOOLEAN]
NoInput == [event |-> [kind |-> "none", protocol |-> "", sub_name |-> ""]]

InitDispatch ==
    /\ dpc = "idle"
    /\ d_in = NoInput
    /\ workflows = {}
    /\ task = [w \in Wfs |-> "none"]
    /\ result = [w \in Wfs |-> ""]
    /\ pending = {}
    /\ done = {}
    /\ sending = 0
    /\ sends = [w \in Wfs |-> 0]
    /\ message_handled = FALSE
    /\ last_send = ""

\* _get_subscribed_workflow_ids, cache.py:128-141
get_subscribed_workflow_ids(in) ==
    IF in.owner_id = 0 THEN {}
    ELSE IF in.query_ok THEN in.subscribed
    ELSE {}

\* get_workflows_by_trigger, cache.py:143-189, called as in handler.py:56-88:
\* event_name is the notice_type of a notice and '' for a message
get_workflows_by_trigger(in) ==
    LET event_name == in.event.sub_name
        user_id == in.owner_id
        protocol == in.event.protocol
        subscribed_ids == get_subscribed_workflow_ids(in)
    IN  {w \in Wfs :
            /\ in.cache[w].trigger_type = in.event.kind
            /\ ~(/\ event_name # ""
                 /\ in.cache[w].event_filter # {}
                 /\ event_name \notin in.cache[w].event_filter)
            /\ ~(user_id # 0 /\ w \notin subscribed_ids)
            /\ ~(/\ protocol # ""
                 /\ in.cache[w].protocols # {}
                 /\ protocol \notin in.cache[w].protocols)}

\* handler.py:19-92: an event arrives; meta events are skipped, the workflows
\* of the others are looked up
ReceiveEvent ==
    /\ dpc = "idle"
    /\ \E in \in Inputs :
          /\ d_in' = in
          /\ IF in.event.kind = "meta"
             THEN dpc' = "finished" /\ workflows' = {}
             ELSE dpc' = "matched" /\ workflows' = get_workflows_by_trigger(in)
    /\ UNCHANGED <<task, result, pending, done, sending, sends, message_handled, last_send>>
    /\ UNCHANGED nonDispatchVars

\* handler.py:90-108: no workflow: return; else one task per workflow
CreateTasks ==
    /\ dpc = "matched"
    /\ d_in' = NoInput
    /\ dpc' = IF workflows = {} THEN "finished" ELSE "waiting"
    /\ task' = [w \in Wfs |-> IF w \in workflows THEN "running" ELSE "none"]
    /\ pending' = workflows
    /\ UNCHANGED <<workflows, result, done, sending, sends, message_handled, last_send>>
    /\ UNCHANGED nonDispatchVars

\* What engine.execute returns (engine.py:66-88): handled with a message as
\* response, handled with a response that is no message (endpoint.py:143),
\* not handled; "raised" is a task that ends with an exception
Outcomes == {"message", "other", "unhandled", "raised"}

\* _async_execute_workflow, handler.py:148-179: a task ends, while the handler
\* is suspended in asyncio.wait or in the send
TaskEnds(w, o) ==
    /\ dpc \in {"waiting", "sending"}
    /\ task[w] = "running"
    /\ task' = [task EXCEPT ![w] = "finished"]
    /\ result' = [result EXCEPT ![w] = o]
    /\ UNCHANGED <<dpc, d_in, workflows, pending, done, sending, sends, message_handled, last_send>>
    /\ UNCHANGED nonDispatchVars

\* handler.py:112: asyncio.wait returns the pending tasks that have ended
WaitReturns ==
    LET ended_tasks == {w \in pending : task[w] = "finished"}
    IN  /\ dpc = "waiting"
        /\ ended_tasks # {}
        /\ done' = ended_tasks
        /\ pending' = pending \ ended_tasks
        /\ dpc' = "processing"
        /\ UNCHANGED <<d_in, workflows, task, result, sending, sends, message_handled, last_send>>
        /\ UNCHANGED nonDispatchVars

\* handler.py:114-134: one task of the batch; the response of a handled result
\* is sent when it is a message
ProcessTask(w) ==
    /\ dpc = "processing"
    /\ w \in done
    /\ done' = done \ {w}
    /\ task' = [task EXCEPT ![w] = "processed"]
    /\ IF result[w] = "message"
       THEN /\ dpc' = "sending"
            /\ sending' = w
            /\ sends' = [sends EXCEPT ![w] = @ + 1]
            /\ UNCHANGED message_handled
       ELSE /\ message_handled' = (message_handled \/ result[w] = "other")
            /\ UNCHANGED <<dpc, sending, sends>>
    /\ UNCHANGED <<d_in, workflows, result, pending, last_send>>
    /\ UNCHANGED nonDispatchVars

\* _async_send_response, handler.py:181-219: the send ends, by success, by an
\* exception or by the 30 s timeout; each is swallowed
SendEnds(how) ==
    /\ dpc = "sending"
    /\ last_send' = how
    /\ sending' = 0
    /\ message_handled' = TRUE
    /\ dpc' = "processing"
    /\ UNCHANGED <<d_in, workflows, task, result, pending, done, sends>>
    /\ UNCHANGED nonDispatchVars

\* A handler that stops at the first handled result
StopWhenHandled(p, handled) == p # {} /\ ~handled

\* handler.py:110: while pending
KeepWaiting(p, handled) == p # {}

\* handler.py:110-114: the batch is processed: wait again or leave the loop
BatchDone ==
    /\ dpc = "processing"
    /\ done = {}
    /\ dpc' = IF KeepWaiting(pending, message_handled) THEN "waiting" ELSE "finished"
    /\ UNCHANGED <<d_in, workflows, task, result, pending, done, sending, sends,
                   message_handled, last_send>>
    /\ UNCHANGED nonDispatchVars

\* handler.py:143-146: the handler returns
HandlerReturns ==
    /\ dpc = "finished"
    /\ dpc' = "idle"
    /\ d_in' = NoInput
    /\ workflows' = {}
    /\ task' = [w \in Wfs |-> "none"]
    /\ result' = [w \in Wfs |-> ""]
    /\ pending' = {}
    /\ done' = {}
    /\ sending' = 0
    /\ sends' = [w \in Wfs |-> 0]
    /\ message_handled' = FALSE
    /\ last_send' = ""
    /\ UNCHANGED nonDispatchVars

NextDispatch ==
    \/ ReceiveEvent
    \/ CreateTasks
    \/ \E w \in Wfs, o \in Outcomes : TaskEnds(w, o)
    \/ WaitReturns
    \/ \E w \in Wfs : ProcessTask(w)
    \/ \E how \in {"ok", "failed", "timeout"} : SendEnds(how)
    \/ BatchDone
    \/ HandlerReturns

(***************************************************************************)
(* The scheduler of the schedule-triggered workflows: SchedulerService     *)
(* (src/Core/scheduler/scheduler.py).  Reloads are serialized by the lock  *)
(* of WorkflowCache.reload (src/Core/workflow/cache.py:44); the application*)
(* starts the scheduler once (src/app.py:59) and nothing stops it.  The    *)
(* jobs run on the scheduler's thread pool, concurrently with the reloads. *)
(***************************************************************************)
NSched == 2          \* rows of the Workflow table
MaxRuns == 2         \* executions of one job followed at a time
max_instances == 1   \* job_defaults of the BackgroundScheduler

SWfs == 1..NSched
\* A row: deleted, not enabled, enabled with another trigger_type, or enabled
\* with trigger_type schedule and a schedule that is a 5-field cron
\* expression, a cron expression that does not parse, an interval, or of an
\* unknown type
Rows == {"deleted", "disabled", "message", "cron", "cron_bad", "interval", "unknown"}
NoRows == [w \in SWfs |-> "deleted"]

InitScheduler ==
    /\ db = NoRows
    /\ scheduler_running = FALSE
    /\ jobs = {}
    /\ jobstore = {}
    /\ instances = [w \in SWfs |-> 0]
    /\ rpc = "idle"
    /\ queried = NoRows
    /\ to_add = {}
    /\ before = {}
    /\ reinstalled = [w \in SWfs |-> FALSE]
    /\ missed = [w \in SWfs |-> "none"]

\* BluePrints/admin/workflow.py: a row is created, edited, toggled or deleted.
\* A reload reads the table once (scheduler.py:381), so an edit made during a
\* reload has the effect of the same edit made when the reload has returned
EditWorkflow(w, row) ==
    /\ rpc = "idle"
    /\ row # db[w]
    /\ db' = [db EXCEPT ![w] = row]
    /\ UNCHANGED <<scheduler_running, jobs, jobstore, instances, rpc, queried, to_add, before,
                   reinstalled, missed>>
    /\ UNCHANGED nonSchedulerVars

\* start, scheduler.py:39-54, called by create_app between two reloads
SchedulerStart ==
    /\ rpc = "idle"
    /\ ~scheduler_running
    /\ scheduler_running' = TRUE
    /\ UNCHANGED <<db, jobs, jobstore, instances, rpc, queried, to_add, before, reinstalled,
                   missed>>
    /\ UNCHANGED nonSchedulerVars

HasJob(js, w) == \E j \in js : j.id = w

\* remove_workflow_job, scheduler.py:125-147: the job store after the call;
\* remove_job raises when the store has no such job
removed_job(js, tracked, w) ==
    IF scheduler_running /\ w \in tracked THEN {j \in js : j.id # w} ELSE js

\* remove_workflow_job: self._jobs after the call
removed_entry(js, tracked, w) ==
    IF scheduler_running /\ w \in tracked /\ HasJob(js, w) THEN tracked \ {w} ELSE tracked

\* A reload that leaves the installed jobs in place
KeepAll(js, tracked) == js

\* scheduler.py:384-385: every recorded job is removed
RemoveAll(js, tracked) ==
    IF scheduler_running THEN {j \in js : j.id \notin tracked} ELSE js

\* scheduler.py:381: the enabled rows are read
ReloadQuery ==
    /\ rpc = "idle"
    /\ queried' = db
    /\ before' = jobstore
    /\ rpc' = "removing"
    /\ UNCHANGED <<db, scheduler_running, jobs, jobstore, instances, to_add, reinstalled, missed>>
    /\ UNCHANGED nonSchedulerVars

\* scheduler.py:384-385
ReloadRemove ==
    /\ rpc = "removing"
    /\ jobstore' = RemoveAll(jobstore, jobs)
    /\ jobs' = IF scheduler_running THEN {w \in jobs : ~HasJob(jobstore, w)} ELSE jobs
    /\ to_add' = {w \in SWfs : queried[w] \notin {"deleted", "disabled"}}
    /\ rpc' = "adding"
    /\ UNCHANGED <<db, scheduler_running, instances, queried, before, reinstalled, missed>>
    /\ UNCHANGED nonSchedulerVars

\* _parse_cron and the schedule types, scheduler.py:81-99 and 164-192
ValidSchedule(row) == row \in {"cron", "interval"}

\* scheduler.py:389-395 with add_workflow_job, scheduler.py:62-123: one row of
\* the reload
ReloadAdd(w) ==
    /\ rpc = "adding"
    /\ w \in to_add
    /\ to_add' = to_add \ {w}
    /\ IF queried[w] = "message" \/ ~scheduler_running
       THEN UNCHANGED <<jobs, jobstore, reinstalled>>
       ELSE IF ValidSchedule(queried[w])
       THEN /\ jobstore' = {j \in removed_job(jobstore, jobs, w) : j.id # w}
                              \cup {[id |-> w, schedule |-> queried[w]]}
            /\ jobs' = removed_entry(jobstore, jobs, w) \cup {w}
            /\ reinstalled' = [reinstalled EXCEPT ![w] = instances[w] > 0]
       ELSE /\ jobstore' = removed_job(jobstore, jobs, w)
            /\ jobs' = removed_entry(jobstore, jobs, w)
            /\ UNCHANGED reinstalled
    /\ UNCHANGED <<db, scheduler_running, instances, rpc, queried, before, missed>>
    /\ UNCHANGED nonSchedulerVars

\* scheduler.py:397-399: the reload has gone through the rows
ReloadDone ==
    /\ rpc = "adding"
    /\ to_add = {}
    /\ rpc' = "done"
    /\ UNCHANGED <<db, scheduler_running, jobs, jobstore, instances, queried, to_add, before,
                   reinstalled, missed>>
    /\ UNCHANGED nonSchedulerVars

\* scheduler.py:399 and cache.py:84: the reload returns, the lock is released
ReloadReturns ==
    /\ rpc = "done"
    /\ rpc' = "idle"
    /\ queried' = NoRows
    /\ before' = {}
    /\ UNCHANGED <<db, scheduler_running, jobs, jobstore, instances, to_add, reinstalled, missed>>
    /\ UNCHANGED nonSchedulerVars

\* An executor that runs every tick
AlwaysSubmit(n) == TRUE

\* scheduler.py:47-51: the executor runs a job whose id has fewer than
\* max_instances executions active
CanSubmit(n) == n < max_instances

\* The trigger of the job of workflow w fires: the job is run by
\* _execute_scheduled_workflow (scheduler.py:259-279) or the tick is dropped
TickFires(w) ==
    /\ scheduler_running
    /\ HasJob(jobstore, w)
    /\ instances[w] < MaxRuns
    /\ IF CanSubmit(instances[w])
       THEN /\ instances' = [instances EXCEPT ![w] = @ + 1]
            /\ UNCHANGED missed
       ELSE /\ missed' = [missed EXCEPT ![w] = IF reinstalled[w] THEN "reinstalled" ELSE "tick"]
            /\ UNCHANGED instances
    /\ UNCHANGED <<db, scheduler_running, jobs, jobstore, rpc, queried, to_add, before,
                   reinstalled>>
    /\ UNCHANGED nonSchedulerVars

\* _execute_scheduled_workflow returns, scheduler.py:271-279
RunEnds(w) ==
    /\ instances[w] > 0
    /\ instances' = [instances EXCEPT ![w] = @ - 1]
    /\ reinstalled' = [reinstalled EXCEPT ![w] = FALSE]
    /\ missed' = [missed EXCEPT ![w] = "none"]
    /\ UNCHANGED <<db, scheduler_running, jobs, jobstore, rpc, queried, to_add, before>>
    /\ UNCHANGED nonSchedulerVars

NextScheduler ==
    \/ \E w \in SWfs, row \in Rows : EditWorkflow(w, row)
    \/ SchedulerStart
    \/ ReloadQuery
    \/ ReloadRemove
    \/ \E w \in SWfs : ReloadAdd(w)
    \/ ReloadDone
    \/ ReloadReturns
    \/ \E w \in SWfs : TickFires(w)
    \/ \E w \in SWfs : RunEnds(w)

(***************************************************************************)
(* The access token of QQAPIClient (src/Adapters/qq/api_client.py).  The   *)
(* client is one object per application, called from the threads that      *)
(* handle the deliveries; it holds no lock.                                *)
(***************************************************************************)
NAuth == 2           \* threads calling ensure_authenticated
NRThreads == 2       \* refresh thread objects alive at a time

AuthCallers == 1..NAuth
RThreads == 1..NRThreads

InitToken ==
    /\ access_token = "invalid"
    /\ token_refreshing = FALSE
    /\ refresh_thread = 0
    /\ rth = [k \in RThreads |-> "none"]
    /\ tpc = [c \in AuthCallers |-> "idle"]
    /\ tret = [c \in AuthCallers |-> "none"]

\* Thread.is_alive()
is_alive(k) == rth[k] \in {"started", "auth", "finally"}

\* ensure_authenticated returns r
EnsureReturns(c, r) ==
    /\ tpc' = [tpc EXCEPT ![c] = "idle"]
    /\ tret' = [tret EXCEPT ![c] = r]

\* lines 199-204: is_token_valid and should_refresh_token
EnsureCall(c) ==
    /\ tpc[c] = "idle"
    /\ IF access_token = "fresh"
       THEN EnsureReturns(c, "true")
       ELSE /\ tpc' = [tpc EXCEPT ![c] = IF access_token = "invalid" THEN "sync" ELSE "e_flag"]
            /\ tret' = [tret EXCEPT ![c] = "none"]
    /\ UNCHANGED <<access_token, token_refreshing, refresh_thread, rth>>
    /\ UNCHANGED nonTokenVars

\* line 201 with authenticate, lines 102-176: the synchronous request ends
SyncAuthEnds(c, ok) ==
    /\ tpc[c] = "sync"
    /\ access_token' = IF ok THEN "fresh" ELSE access_token
    /\ EnsureReturns(c, IF ok THEN "true" ELSE "false")
    /\ UNCHANGED <<token_refreshing, refresh_thread, rth>>
    /\ UNCHANGED nonTokenVars

\* lines 205-210: if not self._token_refreshing
EnsureCheckFlag(c) ==
    /\ tpc[c] = "e_flag"
    /\ IF token_refreshing
       THEN EnsureReturns(c, "true")
       ELSE tpc' = [tpc EXCEPT ![c] = "a_flag"] /\ UNCHANGED tret
    /\ UNCHANGED <<access_token, token_refreshing, refresh_thread, rth>>
    /\ UNCHANGED nonTokenVars

\* lines 216-217: if self._token_refreshing: return
AsyncCheckFlag(c) ==
    /\ tpc[c] = "a_flag"
    /\ IF token_refreshing
       THEN EnsureReturns(c, "true")
       ELSE tpc' = [tpc EXCEPT ![c] = "a_alive"] /\ UNCHANGED tret
    /\ UNCHANGED <<access_token, token_refreshing, refresh_thread, rth>>
    /\ UNCHANGED nonTokenVars

\* lines 218-219: if self._refresh_thread and self._refresh_thread.is_alive()
AsyncCheckAlive(c) ==
    /\ tpc[c] = "a_alive"
    /\ IF refresh_thread # 0 /\ is_alive(refresh_thread)
       THEN EnsureReturns(c, "true")
       ELSE tpc' = [tpc EXCEPT ![c] = "a_create"] /\ UNCHANGED tret
    /\ UNCHANGED <<access_token, token_refreshing, refresh_thread, rth>>
    /\ UNCHANGED nonTokenVars

\* line 235: self._refresh_thread = threading.Thread(...)
AsyncCreate(c) ==
    /\ tpc[c] = "a_create"
    /\ \E k \in RThreads :
          /\ rth[k] \in {"none", "dead"}
          /\ rth' = [rth EXCEPT ![k] = "created"]
          /\ refresh_thread' = k
    /\ tpc' = [tpc EXCEPT ![c] = "a_start"]
    /\ UNCHANGED <<access_token, token_refreshing, tret>>
    /\ UNCHANGED nonTokenVars

\* line 236 and line 210: self._refresh_thread.start(), then
\* ensure_authenticated returns True.  The thread started is the one the
\* attribute names at that moment; starting a thread a second time raises
AsyncStart(c) ==
    /\ tpc[c] = "a_start"
    /\ IF rth[refresh_thread] = "created"
       THEN /\ rth' = [rth EXCEPT ![refresh_thread] = "started"]
            /\ EnsureReturns(c, "true")
       ELSE /\ EnsureReturns(c, "raised")
            /\ UNCHANGED rth
    /\ UNCHANGED <<access_token, token_refreshing, refresh_thread>>
    /\ UNCHANGED nonTokenVars

\* refresh_task, lines 222-224: the flag is set and the token request sent
RefreshBegin(k) ==
    /\ rth[k] = "started"
    /\ token_refreshing' = TRUE
    /\ rth' = [rth EXCEPT ![k] = "auth"]
    /\ UNCHANGED <<access_token, refresh_thread, tpc, tret>>
    /\ UNCHANGED nonTokenVars

\* refresh_task, lines 224-231 with authenticate: the request ends
RefreshEnds(k, ok) ==
    /\ rth[k] = "auth"
    /\ access_token' = IF ok THEN "fresh" ELSE access_token
    /\ rth' = [rth EXCEPT ![k] = "finally"]
    /\ UNCHANGED <<token_refreshing, refresh_thread, tpc, tret>>
    /\ UNCHANGED nonTokenVars

\* refresh_task, lines 232-233: finally
RefreshFinally(k) ==
    /\ rth[k] = "finally"
    /\ token_refreshing' = FALSE
    /\ rth' = [rth EXCEPT ![k] = "dead"]
    /\ UNCHANGED <<access_token, refresh_thread, tpc, tret>>
    /\ UNCHANGED nonTokenVars

\* time.time() passes token_expires_at - 60, then token_expires_at
TimePasses ==
    /\ access_token # "invalid"
    /\ access_token' = IF access_token = "fresh" THEN "window" ELSE "invalid"
    /\ UNCHANGED <<token_refreshing, refresh_thread, rth, tpc, tret>>
    /\ UNCHANGED nonTokenVars

NextToken ==
    \/ \E c \in AuthCallers : EnsureCall(c)
    \/ \E c \in AuthCallers, ok \in BOOLEAN : SyncAuthEnds(c, ok)
    \/ \E c \in AuthCallers : EnsureCheckFlag(c)
    \/ \E c \in AuthCallers : AsyncCheckFlag(c)
    \/ \E c \in AuthCallers : AsyncCheckAlive(c)
    \/ \E c \in AuthCallers : AsyncCreate(c)
    \/ \E c \in AuthCallers : AsyncStart(c)
    \/ \E k \in RThreads : RefreshBegin(k)
    \/ \E k \in RThreads, ok \in BOOLEAN : RefreshEnds(k, ok)
    \/ \E k \in RThreads : RefreshFinally(k)
    \/ TimePasses

(***************************************************************************)
(* API calls over the WebSocket: OneBotAdapter._call_api and the response  *)
(* branch of _on_message (src/Adapters/onebot/v11/adapter.py).  The calls  *)
(* run on the adapter's event loop, _on_message on the reader thread.      *)
(***************************************************************************)
NEcho == 2           \* API calls made in one behaviour
wait_rounds == 50    \* for _ in range(50), 0.1 s each

Echoes == 1..NEcho

InitApi ==
    /\ api_responses = [e \in Echoes |-> "none"]
    /\ call = [e \in Echoes |-> "none"]
    /\ polls = [e \in Echoes |-> 0]
    /\ answered = [e \in Echoes |-> FALSE]
    /\ api_data = [e \in Echoes |-> 0]
    /\ returned = [e \in Echoes |-> 0]

\* lines 381-395: a fresh echo is drawn and the action frame sent
CallApi(e) ==
    /\ call[e] = "none"
    /\ \A x \in Echoes : x < e => call[x] # "none"
    /\ call' = [call EXCEPT ![e] = "waiting"]
    /\ UNCHANGED <<api_responses, polls, answered, api_data, returned>>
    /\ UNCHANGED nonApiVars

\* A table with one slot for all responses
FirstSlot(echo) == 1

\* line 194: self.api_responses[echo] = data
response_slot(echo) == echo

\* _on_message, lines 185-197: the response frame of a request arrives, at
\* any time after the request; it carries the request's echo and its data
ResponseFrame(e, status) ==
    /\ call[e] # "none"
    /\ ~answered[e]
    /\ answered' = [answered EXCEPT ![e] = TRUE]
    /\ api_responses' = [api_responses EXCEPT ![response_slot(e)] = status]
    /\ api_data' = [api_data EXCEPT ![response_slot(e)] = e]
    /\ UNCHANGED <<call, polls, returned>>
    /\ UNCHANGED nonApiVars

\* lines 398-415: one round of the wait loop
Poll(e) ==
    /\ call[e] = "waiting"
    /\ polls[e] < wait_rounds
    /\ IF api_responses[e] # "none"
       THEN /\ api_responses' = [api_responses EXCEPT ![e] = "none"]
            /\ api_data' = [api_data EXCEPT ![e] = 0]
            /\ call' = [call EXCEPT ![e] = IF api_responses[e] = "ok" THEN "data" ELSE "null"]
            /\ returned' = [returned EXCEPT ![e] = IF api_responses[e] = "ok"
                                                   THEN api_data[e] ELSE 0]
            /\ UNCHANGED polls
       ELSE /\ polls' = [polls EXCEPT ![e] = @ + 1]
            /\ UNCHANGED <<api_responses, call, api_data, returned>>
    /\ UNCHANGED answered
    /\ UNCHANGED nonApiVars

\* lines 417-420: the loop has run out: pop(echo, None), return None
CallTimesOut(e) ==
    /\ call[e] = "waiting"
    /\ polls[e] = wait_rounds
    /\ api_responses' = [api_responses EXCEPT ![e] = "none"]
    /\ api_data' = [api_data EXCEPT ![e] = 0]
    /\ call' = [call EXCEPT ![e] = "timeout"]
    /\ UNCHANGED <<polls, answered, returned>>
    /\ UNCHANGED nonApiVars

NextApi ==
    \/ \E e \in Echoes : CallApi(e)
    \/ \E e \in Echoes, status \in {"ok", "failed"} : ResponseFrame(e, status)
    \/ \E e \in Echoes : Poll(e)
    \/ \E e \in Echoes : CallTimesOut(e)

(***************************************************************************)
(* The workflow cache: WorkflowCache.reload and its readers                *)
(* (src/Core/workflow/cache.py).  reload runs in the thread of the admin   *)
(* request that changed a workflow, the readers in the threads and loops   *)
(* that handle events.  The rows are those of the Workflow table (db).     *)
(***************************************************************************)
NReaders == 1        \* threads reading the cache

Readers == 1..NReaders

InitCache ==
    /\ cache_workflows = <<>>
    /\ cache_lock = 0
    /\ cache_pc = "idle"
    /\ fetched = <<>>
    /\ cache_before = <<>>
    /\ cache_after = <<>>
    /\ rdpc = [r \in Readers |-> "idle"]
    /\ seen = [r \in Readers |-> <<>>]

\* A lock that everybody may take at any time
NoLock(l) == TRUE

\* threading.RLock: free for a thread that does not hold it
LockFree(l) == l = 0

\* cache.py:51-53: the enabled rows in priority order (here the order of ids),
\* as the entries reload builds of them, cache.py:64-72
EnabledRows ==
    LET ids == SelectSeq([i \in 1..NSched |-> i],
                         LAMBDA w : db[w] \notin {"deleted", "disabled"})
    IN  [i \in 1..Len(ids) |-> [id |-> ids[i], trigger_type |-> db[ids[i]]]]

\* cache.py:44: with self._lock
CacheReloadAcquire ==
    /\ cache_pc = "idle"
    /\ LockFree(cache_lock)
    /\ cache_lock' = -1
    /\ cache_pc' = "query"
    /\ cache_before' = cache_workflows
    /\ UNCHANGED <<cache_workflows, fetched, cache_after, rdpc, seen>>
    /\ UNCHANGED nonCacheVars

\* cache.py:50-53: the query; when it raises, reload returns 0 (85-87)
CacheReloadQuery(ok) ==
    /\ cache_pc = "query"
    /\ IF ok
       THEN /\ fetched' = EnabledRows
            /\ cache_after' = EnabledRows
            /\ cache_pc' = "clear"
            /\ UNCHANGED cache_lock
       ELSE /\ cache_pc' = "idle"
            /\ cache_lock' = 0
            /\ cache_after' = cache_workflows
            /\ UNCHANGED fetched
    /\ UNCHANGED <<cache_workflows, cache_before, rdpc, seen>>
    /\ UNCHANGED nonCacheVars

\* cache.py:55: self._workflows.clear()
CacheReloadClear ==
    /\ cache_pc = "clear"
    /\ cache_workflows' = <<>>
    /\ cache_pc' = "load"
    /\ UNCHANGED <<cache_lock, fetched, cache_before, cache_after, rdpc, seen>>
    /\ UNCHANGED nonCacheVars

\* cache.py:60-72: one row is appended
CacheReloadAppend ==
    /\ cache_pc = "load"
    /\ fetched # <<>>
    /\ cache_workflows' = Append(cache_workflows, Head(fetched))
    /\ fetched' = Tail(fetched)
    /\ UNCHANGED <<cache_lock, cache_pc, cache_before, cache_after, rdpc, seen>>
    /\ UNCHANGED nonCacheVars

\* cache.py:60-63 and 85-87: loading the next row raises (its config is not a
\* map, or the row cannot be read): the exception is logged and reload
\* returns 0; the list is left as the loop has built it
CacheReloadRowRaises ==
    /\ cache_pc = "load"
    /\ fetched # <<>>
    /\ fetched' = <<>>
    /\ cache_after' = cache_workflows
    /\ cache_pc' = "idle"
    /\ cache_lock' = 0
    /\ UNCHANGED <<cache_workflows, cache_before, rdpc, seen>>
    /\ UNCHANGED nonCacheVars

\* cache.py:80-81: the rows are loaded, _sync_scheduler is called
CacheReloadLoaded ==
    /\ cache_pc = "load"
    /\ fetched = <<>>
    /\ cache_pc' = "sync"
    /\ UNCHANGED <<cache_workflows, cache_lock, fetched, cache_before, cache_after, rdpc, seen>>
    /\ UNCHANGED nonCacheVars

\* cache.py:89-95 and 83: reload_scheduled_workflows has returned; reload
\* returns and the lock is released
CacheReloadReturns ==
    /\ cache_pc = "sync"
    /\ rpc = "done"
    /\ rpc' = "idle"
    /\ queried' = NoRows
    /\ before' = {}
    /\ cache_pc' = "idle"
    /\ cache_lock' = 0
    /\ UNCHANGED <<cache_workflows, fetched, cache_before, cache_after, rdpc, seen>>
    /\ UNCHANGED <<db, scheduler_running, jobs, jobstore, instances, to_add, reinstalled, missed>>
    /\ UNCHANGED <<adapterVars, webhookVars, msgseqVars, engineVars, dispatchVars, tokenVars,
                   apiVars, storageVars, globalsVars, executeVars, fanoutVars,
                   cqVars, nodeVars>>

\* get_workflows_by_trigger, get_all_workflows, get_workflow_by_id are called
ReaderCall(r) ==
    /\ rdpc[r] = "idle"
    /\ rdpc' = [rdpc EXCEPT ![r] = "wait"]
    /\ UNCHANGED <<cache_workflows, cache_lock, cache_pc, fetched, cache_before, cache_after,
                   seen>>
    /\ UNCHANGED nonCacheVars

\* cache.py:160, 193, 198: with self._lock
ReaderAcquire(r) ==
    /\ rdpc[r] = "wait"
    /\ LockFree(cache_lock)
    /\ cache_lock' = r
    /\ rdpc' = [rdpc EXCEPT ![r] = "locked"]
    /\ UNCHANGED <<cache_workflows, cache_pc, fetched, cache_before, cache_after, seen>>
    /\ UNCHANGED nonCacheVars

\* cache.py:163-187, 194, 199-201: the list is read
ReaderRead(r) ==
    /\ rdpc[r] = "locked"
    /\ seen' = [seen EXCEPT ![r] = cache_workflows]
    /\ rdpc' = [rdpc EXCEPT ![r] = "read"]
    /\ UNCHANGED <<cache_workflows, cache_lock, cache_pc, fetched, cache_before, cache_after>>
    /\ UNCHANGED nonCacheVars

\* the reader leaves the with block and returns
ReaderRelease(r) ==
    /\ rdpc[r] = "read"
    /\ cache_lock' = IF cache_lock = r THEN 0 ELSE cache_lock
    /\ rdpc' = [rdpc EXCEPT ![r] = "idle"]
    /\ seen' = [seen EXCEPT ![r] = <<>>]
    /\ UNCHANGED <<cache_workflows, cache_pc, fetched, cache_before, cache_after>>
    /\ UNCHANGED nonCacheVars

NextCache ==
    \/ \E w \in SWfs, row \in {"disabled", "message", "cron", "cron_bad"} :
          cache_pc = "idle" /\ EditWorkflow(w, row)
    \/ cache_pc = "idle" /\ SchedulerStart
    \/ CacheReloadAcquire
    \/ \E ok \in BOOLEAN : CacheReloadQuery(ok)
    \/ CacheReloadClear
    \/ CacheReloadAppend
    \/ CacheReloadRowRaises
    \/ CacheReloadLoaded
    \/ cache_pc = "sync" /\ ReloadQuery
    \/ ReloadRemove
    \/ \E w \in SWfs : ReloadAdd(w)
    \/ ReloadDone
    \/ CacheReloadReturns
    \/ \E r \in Readers : ReaderCall(r)
    \/ \E r \in Readers : ReaderAcquire(r)
    \/ \E r \in Readers : ReaderRead(r)
    \/ \E r \in Readers : ReaderRelease(r)

(***************************************************************************)
(* The data_storage node (src/Core/workflow/nodes/storage.py): write       *)
(* operations on one storage name by workflow executions that run on       *)
(* different threads, each with its own event loop (a webhook delivery     *)
(* runs asyncio.run in its request thread, a OneBot adapter has its loop   *)
(* thread, a scheduled job runs asyncio.run in a pool thread).  Execution  *)
(* t writes the key t.  _file_locks and asyncio.Lock are plain Python      *)
(* objects without thread safety: threads interleave between their reads   *)
(* and writes.                                                             *)
(***************************************************************************)
NExec == 2           \* workflow executions, one thread and event loop each

Execs == 1..NExec

InitStorage ==
    /\ file_locks = 0
    /\ nlocks = 0
    /\ locked = [l \in Execs |-> FALSE]
    /\ storage_file = {}
    /\ spc = [t \in Execs |-> "idle"]
    /\ sop = [t \in Execs |-> "none"]
    /\ slock = [t \in Execs |-> 0]
    /\ sdata = [t \in Execs |-> {}]
    /\ sres = [t \in Execs |-> "none"]

\* _execute, lines 139-161: the node is run with a write operation
StorageCall(t, op) ==
    /\ spc[t] = "idle"
    /\ spc' = [spc EXCEPT ![t] = "getlock"]
    /\ sop' = [sop EXCEPT ![t] = op]
    /\ sres' = [sres EXCEPT ![t] = "none"]
    /\ UNCHANGED <<file_locks, nlocks, locked, storage_file, slock, sdata>>
    /\ UNCHANGED nonStorageVars

\* _get_lock, line 24: if storage_name not in _file_locks
GetLockCheck(t) ==
    /\ spc[t] = "getlock"
    /\ spc' = [spc EXCEPT ![t] = IF file_locks = 0 THEN "mklock" ELSE "retlock"]
    /\ UNCHANGED <<file_locks, nlocks, locked, storage_file, sop, slock, sdata, sres>>
    /\ UNCHANGED nonStorageVars

\* _get_lock, line 25: _file_locks[storage_name] = asyncio.Lock()
GetLockCreate(t) ==
    /\ spc[t] = "mklock"
    /\ nlocks' = nlocks + 1
    /\ file_locks' = nlocks + 1
    /\ spc' = [spc EXCEPT ![t] = "retlock"]
    /\ UNCHANGED <<locked, storage_file, sop, slock, sdata, sres>>
    /\ UNCHANGED nonStorageVars

\* _get_lock, line 26: return _file_locks[storage_name]
GetLockReturn(t) ==
    /\ spc[t] = "retlock"
    /\ slock' = [slock EXCEPT ![t] = file_locks]
    /\ spc' = [spc EXCEPT ![t] = "acquire"]
    /\ UNCHANGED <<file_locks, nlocks, locked, storage_file, sop, sdata, sres>>
    /\ UNCHANGED nonStorageVars

\* line 164, asyncio.Lock.acquire: if not self._locked
AcquireCheck(t) ==
    /\ spc[t] = "acquire"
    /\ spc' = [spc EXCEPT ![t] = IF locked[slock[t]] THEN "blocked" ELSE "setlocked"]
    /\ UNCHANGED <<file_locks, nlocks, locked, storage_file, sop, slock, sdata, sres>>
    /\ UNCHANGED nonStorageVars

\* asyncio.Lock.acquire: self._locked = True
AcquireSet(t) ==
    /\ spc[t] = "setlocked"
    /\ locked' = [locked EXCEPT ![slock[t]] = TRUE]
    /\ spc' = [spc EXCEPT ![t] = "load"]
    /\ UNCHANGED <<file_locks, nlocks, storage_file, sop, slock, sdata, sres>>
    /\ UNCHANGED nonStorageVars

\* asyncio.Lock.acquire on a lock that is held by an execution of another
\* loop: RuntimeError when the lock is bound to another loop (caught at line
\* 178, the operation fails), or a wait for a future that the holder's release
\* completes from its own thread (woken is whether that wakes this loop)
AcquireBlocked(t, woken) ==
    /\ spc[t] = "blocked"
    /\ IF woken
       THEN /\ ~locked[slock[t]]
            /\ locked' = [locked EXCEPT ![slock[t]] = TRUE]
            /\ spc' = [spc EXCEPT ![t] = "load"]
            /\ UNCHANGED sres
       ELSE /\ spc' = [spc EXCEPT ![t] = "idle"]
            /\ sres' = [sres EXCEPT ![t] = "failed"]
            /\ UNCHANGED locked
    /\ UNCHANGED <<file_locks, nlocks, storage_file, sop, slock, sdata>>
    /\ UNCHANGED nonStorageVars

\* _do_operation, line 190: data = _load_storage(storage_name)
StorageLoad(t) ==
    /\ spc[t] = "load"
    /\ sdata' = [sdata EXCEPT ![t] = storage_file]
    /\ spc' = [spc EXCEPT ![t] = "save"]
    /\ UNCHANGED <<file_locks, nlocks, locked, storage_file, sop, slock, sres>>
    /\ UNCHANGED nonStorageVars

\* _do_operation, lines 200-220 and 238-241: the data is changed and saved
StorageSave(t) ==
    /\ spc[t] = "save"
    /\ storage_file' =
          CASE sop[t] = "set" -> sdata[t] \cup {t}
            [] sop[t] = "delete" -> IF t \in sdata[t] THEN sdata[t] \ {t} ELSE storage_file
            [] OTHER -> {}
    /\ spc' = [spc EXCEPT ![t] = "release"]
    /\ UNCHANGED <<file_locks, nlocks, locked, sop, slock, sdata, sres>>
    /\ UNCHANGED nonStorageVars

\* line 164, the end of async with: asyncio.Lock.release; lines 169-176
StorageRelease(t) ==
    /\ spc[t] = "release"
    /\ locked' = [locked EXCEPT ![slock[t]] = FALSE]
    /\ spc' = [spc EXCEPT ![t] = "idle"]
    /\ sres' = [sres EXCEPT ![t] = "ok"]
    /\ UNCHANGED <<file_locks, nlocks, storage_file, sop, slock, sdata>>
    /\ UNCHANGED nonStorageVars

NextStorage ==
    \/ \E t \in Execs, op \in {"set", "delete", "clear"} : StorageCall(t, op)
    \/ \E t \in Execs : GetLockCheck(t)
    \/ \E t \in Execs : GetLockCreate(t)
    \/ \E t \in Execs : GetLockReturn(t)
    \/ \E t \in Execs : AcquireCheck(t)
    \/ \E t \in Execs : AcquireSet(t)
    \/ \E t \in Execs, woken \in BOOLEAN : AcquireBlocked(t, woken)
    \/ \E t \in Execs : StorageLoad(t)
    \/ \E t \in Execs : StorageSave(t)
    \/ \E t \in Execs : StorageRelease(t)

(***************************************************************************)
(* The global variable manager (src/Core/workflow/globals.py): set and     *)
(* delete called by the request threads of the admin pages.  Neither       *)
(* method takes a lock; a thread can be switched between the update of     *)
(* _cache, json.dumps and the KV write.  Caller c writes the value c.       *)
(***************************************************************************)
NGCallers == 2       \* request threads that call set or delete
NGKeys == 2          \* global variable keys

GCallers == 1..NGCallers
GKeys == 1..NGKeys
NoGlobals == [k \in GKeys |-> 0]
NoGCall == [op |-> "none", key |-> 0]

InitGlobals ==
    /\ g_db = NoGlobals
    /\ g_cache = NoGlobals
    /\ g_kv = NoGlobals
    /\ gpc = [c \in GCallers |-> "idle"]
    /\ gcall = [c \in GCallers |-> NoGCall]
    /\ gdump = [c \in GCallers |-> NoGlobals]

\* set, lines 86-91, and delete, lines 104-109: the table is updated first;
\* an exception there ends the call with False and nothing else changed
GlobalsCall(c, op, key, db_ok) ==
    /\ gpc[c] = "idle"
    /\ IF db_ok
       THEN /\ g_db' = [g_db EXCEPT ![key] = IF op = "set" THEN c ELSE 0]
            /\ gpc' = [gpc EXCEPT ![c] = "cache"]
            /\ gcall' = [gcall EXCEPT ![c] = [op |-> op, key |-> key]]
       ELSE UNCHANGED <<g_db, gpc, gcall>>
    /\ UNCHANGED <<g_cache, g_kv, gdump>>
    /\ UNCHANGED nonGlobalsVars

\* set, line 94: self._cache[key] = value; delete, lines 112-113
GlobalsCacheUpdate(c) ==
    /\ gpc[c] = "cache"
    /\ g_cache' = [g_cache EXCEPT ![gcall[c].key] =
                       IF gcall[c].op = "set" THEN c ELSE 0]
    /\ gpc' = [gpc EXCEPT ![c] = "dumps"]
    /\ UNCHANGED <<g_db, g_kv, gcall, gdump>>
    /\ UNCHANGED nonGlobalsVars

\* set, line 95, and delete, line 114: json.dumps(self._cache)
GlobalsDumps(c) ==
    /\ gpc[c] = "dumps"
    /\ gdump' = [gdump EXCEPT ![c] = g_cache]
    /\ gpc' = [gpc EXCEPT ![c] = "mirror"]
    /\ UNCHANGED <<g_db, g_cache, g_kv, gcall>>
    /\ UNCHANGED nonGlobalsVars

\* set, lines 95-96, and delete, lines 114-115: set_value(GLOBALS_CACHE_KEY, ...)
\* and return True
GlobalsSetValue(c) ==
    /\ gpc[c] = "mirror"
    /\ g_kv' = gdump[c]
    /\ gpc' = [gpc EXCEPT ![c] = "idle"]
    /\ gcall' = [gcall EXCEPT ![c] = NoGCall]
    /\ gdump' = [gdump EXCEPT ![c] = NoGlobals]
    /\ UNCHANGED <<g_db, g_cache>>
    /\ UNCHANGED nonGlobalsVars

NextGlobals ==
    \/ \E c \in GCallers, op \in {"set", "delete"}, key \in GKeys, db_ok \in BOOLEAN :
           GlobalsCall(c, op, key, db_ok)
    \/ \E c \in GCallers : GlobalsCacheUpdate(c)
    \/ \E c \in GCallers : GlobalsDumps(c)
    \/ \E c \in GCallers : GlobalsSetValue(c)

(***************************************************************************)
(* WorkflowEngine.execute (src/Core/workflow/engine.py:34-88) on one       *)
(* engine object.  The cache builds an engine per workflow with its        *)
(* workflow_id and the handler runs every event of the workflow on it      *)
(* (cache.py:113, handler.py:162-178); the scheduler builds its engines     *)
(* without a workflow_id (scheduler.py:349).  Executions of one engine     *)
(* interleave at the awaits inside _run_nodes.  _run_nodes is taken as the *)
(* steps it executes, each of which may set the context's response, and    *)
(* the way it ends: normally or by an exception that leaves it.            *)
(***************************************************************************)
NRuns == 2           \* concurrent executions of the engine
MaxNodeRuns == 2     \* steps executed in one execution

Runs == 1..NRuns
Protocols == {"qq", "onebot"}
Engines == [workflow_id : BOOLEAN, protocols : SUBSET Protocols,
            trigger_type : {"message", "schedule"}]
XEvents == [protocol : Protocols, has_message : BOOLEAN]
NoXEvent == [protocol |-> "none", has_message |-> FALSE]
NoRecord == [run |-> 0, status |-> "none"]

InitExecute ==
    /\ engine = [workflow_id |-> TRUE, protocols |-> {}, trigger_type |-> "message"]
    /\ debug_recorder = 0
    /\ debug_record = NoRecord
    /\ xpc = [x \in Runs |-> "idle"]
    /\ xev = [x \in Runs |-> NoXEvent]
    /\ xsteps = [x \in Runs |-> 0]
    /\ xresp = [x \in Runs |-> FALSE]
    /\ xhandled = [x \in Runs |-> FALSE]
    /\ xret = [x \in Runs |-> "none"]

\* __init__, lines 20-32: another engine is built
NewEngine(e) ==
    /\ \A x \in Runs : xpc[x] = "idle"
    /\ e # engine
    /\ engine' = e
    /\ debug_recorder' = 0
    /\ debug_record' = NoRecord
    /\ UNCHANGED <<xpc, xev, xsteps, xresp, xhandled, xret>>
    /\ UNCHANGED nonExecuteVars

\* execute is called with an event
ExecuteCall(x, ev) ==
    /\ xpc[x] = "idle"
    /\ xpc' = [xpc EXCEPT ![x] = "checks"]
    /\ xev' = [xev EXCEPT ![x] = ev]
    /\ xsteps' = [xsteps EXCEPT ![x] = 0]
    /\ xresp' = [xresp EXCEPT ![x] = FALSE]
    /\ xhandled' = [xhandled EXCEPT ![x] = FALSE]
    /\ xret' = [xret EXCEPT ![x] = "none"]
    /\ UNCHANGED <<engine, debug_recorder, debug_record>>
    /\ UNCHANGED nonExecuteVars

\* An engine that accepts every protocol
AnyProtocol(allowed_protocols, current_protocol) == TRUE

\* _check_protocol, lines 236-254
check_protocol(allowed_protocols, current_protocol) ==
    allowed_protocols = {} \/ current_protocol \in allowed_protocols

\* lines 48-60: the trigger type and protocol checks, then the debug recorder
ExecuteChecks(x) ==
    /\ xpc[x] = "checks"
    /\ IF \/ engine.trigger_type = "message" /\ ~xev[x].has_message
          \/ ~check_protocol(engine.protocols, xev[x].protocol)
       THEN /\ xpc' = [xpc EXCEPT ![x] = "returned"]
            /\ xret' = [xret EXCEPT ![x] = "unhandled"]
            /\ UNCHANGED debug_recorder
       ELSE /\ xpc' = [xpc EXCEPT ![x] = "nodes"]
            /\ debug_recorder' = IF engine.workflow_id THEN x ELSE debug_recorder
            /\ UNCHANGED xret
    /\ UNCHANGED <<engine, debug_record, xev, xsteps, xresp, xhandled>>
    /\ UNCHANGED nonExecuteVars

\* What a step does to the response of the context: nothing ("plain"); a
\* send_message node assigns context._response (nodes/actions.py:152-153); an
\* endpoint node assigns context._response = True (nodes/endpoint.py:142-143);
\* the error handler of a failed step and the message API of a code snippet
\* call context.set_response (engine.py:266-269, context.py:20-27)
StepKinds == {"plain", "send_message", "endpoint", "set_response"}

\* the step leaves a response in the context
sets_response(kind) == kind # "plain"

\* WorkflowContext.set_response, context.py:126-135, the only place that
\* writes variables['_handled']
marks_handled(kind) == kind = "set_response"

\* _run_nodes, lines 97-153: a step of the given kind is executed
RunStep(x, kind) ==
    /\ xpc[x] = "nodes"
    /\ xsteps[x] < MaxNodeRuns
    /\ xsteps' = [xsteps EXCEPT ![x] = @ + 1]
    /\ xresp' = [xresp EXCEPT ![x] = @ \/ sets_response(kind)]
    /\ xhandled' = [xhandled EXCEPT ![x] = @ \/ marks_handled(kind)]
    /\ UNCHANGED <<engine, debug_recorder, debug_record, xpc, xev, xret>>
    /\ UNCHANGED nonExecuteVars

\* _run_nodes ends: the loop is left (raised = FALSE), or an exception leaves
\* it, which the except clause of a failed step can raise (lines 155-169)
RunNodesEnds(x, raised) ==
    /\ xpc[x] = "nodes"
    /\ raised => xsteps[x] > 0
    /\ xpc' = [xpc EXCEPT ![x] = IF raised THEN "except" ELSE "result"]
    /\ UNCHANGED <<engine, debug_recorder, debug_record, xev, xsteps, xresp, xhandled, xret>>
    /\ UNCHANGED nonExecuteVars

\* WorkflowDebugRecorder.finish (debug.py:99-136) on self.debug_recorder
finish(status) ==
    IF debug_recorder # 0
    THEN [run |-> debug_recorder, status |-> status]
    ELSE debug_record

\* An engine that reports every execution as handled
AlwaysHandled(response_set) == TRUE

\* lines 67-68: response is not None
has_response(response_set) == response_set

\* lines 66-80: the response decides the result
ExecuteResult(x) ==
    /\ xpc[x] = "result"
    /\ xpc' = [xpc EXCEPT ![x] = "returned"]
    /\ xret' = [xret EXCEPT ![x] = IF has_response(xresp[x]) THEN "handled"
                                                            ELSE "unhandled"]
    /\ debug_record' = IF has_response(xresp[x]) THEN finish("success") ELSE debug_record
    /\ UNCHANGED <<engine, debug_recorder, xev, xsteps, xresp, xhandled>>
    /\ UNCHANGED nonExecuteVars

\* lines 82-88: the exception is caught, {'handled': False} is returned
ExecuteExcept(x) ==
    /\ xpc[x] = "except"
    /\ xpc' = [xpc EXCEPT ![x] = "returned"]
    /\ xret' = [xret EXCEPT ![x] = "error"]
    /\ debug_record' = finish("error")
    /\ UNCHANGED <<engine, debug_recorder, xev, xsteps, xresp, xhandled>>
    /\ UNCHANGED nonExecuteVars

\* the caller has the result
ExecuteReturns(x) ==
    /\ xpc[x] = "returned"
    /\ xpc' = [xpc EXCEPT ![x] = "idle"]
    /\ xev' = [xev EXCEPT ![x] = NoXEvent]
    /\ xsteps' = [xsteps EXCEPT ![x] = 0]
    /\ xresp' = [xresp EXCEPT ![x] = FALSE]
    /\ xhandled' = [xhandled EXCEPT ![x] = FALSE]
    /\ xret' = [xret EXCEPT ![x] = "none"]
    /\ UNCHANGED <<engine, debug_recorder, debug_record>>
    /\ UNCHANGED nonExecuteVars

NextExecute ==
    \/ \E e \in Engines : NewEngine(e)
    \/ \E x \in Runs, ev \in XEvents : ExecuteCall(x, ev)
    \/ \E x \in Runs : ExecuteChecks(x)
    \/ \E x \in Runs, kind \in StepKinds : RunStep(x, kind)
    \/ \E x \in Runs, raised \in BOOLEAN : RunNodesEnds(x, raised)
    \/ \E x \in Runs : ExecuteResult(x)
    \/ \E x \in Runs : ExecuteExcept(x)
    \/ \E x \in Runs : ExecuteReturns(x)

(***************************************************************************)
(* One tick of a scheduled workflow: _async_execute_workflow               *)
(* (src/Core/scheduler/scheduler.py:281-365).  The world it reads is the   *)
(* enabled subscriptions of the workflow, the Bot table (owner, is_active) *)
(* and AdapterManager.running_adapters with each adapter's bot attribute.  *)
(* A QQ adapter creates its bot when it is constructed, a OneBot adapter   *)
(* when its first event arrives (onebot/v11/adapter.py:58, 231-233).       *)
(***************************************************************************)
NFBots == 2          \* bots
NUsers == 2          \* users
MaxChanges == 1      \* adapters started or stopped by other threads during one tick

FBots == 1..NFBots
Users == 1..NUsers
Worlds ==
    [subscribed : SUBSET Users, owner : [FBots -> Users], is_active : SUBSET FBots,
     running : SUBSET FBots,
     has_bot : {h \in SUBSET FBots : \A b \in FBots : botProtocol(b) = "qq" => b \in h},
     query_ok : BOOLEAN]
NoWorld ==
    [subscribed |-> {}, owner |-> [b \in FBots |-> 1], is_active |-> {}, running |-> {},
     has_bot |-> {b \in FBots : botProtocol(b) = "qq"}, query_ok |-> TRUE]

InitFanout ==
    /\ fpc = "idle"
    /\ dict_pos = 1
    /\ dict_used = 0
    /\ changes = 0
    /\ throughout = {}
    /\ world = NoWorld
    /\ active_bots = <<>>
    /\ executions = [b \in FBots |-> 0]
    /\ bot_handled = [b \in FBots |-> FALSE]
    /\ bot_sent = [b \in FBots |-> 0]
    /\ handled_count = 0

\* lines 298-306: the users with an enabled subscription; a failed query
\* leaves the set empty
subscribed_user_ids(w) == IF w.query_ok THEN w.subscribed ELSE {}

\* lines 320-324: the active bots of these users
subscribed_bot_ids(w) ==
    {b \in FBots : w.owner[b] \in subscribed_user_ids(w) /\ b \in w.is_active}

\* lines 328-330: a running adapter is taken if its bot id is among them and
\* its bot attribute is set
TakesBot(w, b) == b \in subscribed_bot_ids(w) /\ b \in w.has_bot

\* lines 281-326: the tick reads the subscriptions and the Bot table and makes
\* the iterator of running_adapters.items(); without a subscribed user it
\* returns
FanoutBegin(w) ==
    /\ fpc = "idle"
    /\ world' = w
    /\ active_bots' = <<>>
    /\ fpc' = IF subscribed_user_ids(w) = {} THEN "bots" ELSE "collect"
    /\ dict_pos' = 1
    /\ dict_used' = Cardinality(w.running)
    /\ changes' = 0
    /\ throughout' = w.running
    /\ executions' = [b \in FBots |-> 0]
    /\ bot_handled' = [b \in FBots |-> FALSE]
    /\ bot_sent' = [b \in FBots |-> 0]
    /\ handled_count' = 0
    /\ UNCHANGED nonFanoutVars

\* the keys of running_adapters the iterator has not passed
KeysLeft == {b \in world.running : b >= dict_pos}

\* lines 327-334: one step of the loop over running_adapters.items(), in
\* ascending id.  The iterator raises RuntimeError when the dictionary has
\* changed size since it was made; the except clause of line 333 logs it and
\* the bots collected so far are the active bots.
FanoutIterate ==
    /\ fpc = "collect"
    /\ IF Cardinality(world.running) # dict_used \/ KeysLeft = {}
       THEN /\ fpc' = "bots"
            /\ UNCHANGED <<dict_pos, active_bots>>
       ELSE LET b == CHOOSE k \in KeysLeft : \A j \in KeysLeft : k <= j
            IN  /\ dict_pos' = b + 1
                /\ active_bots' = IF TakesBot(world, b) THEN Append(active_bots, b)
                                  ELSE active_bots
                /\ UNCHANGED fpc
    /\ UNCHANGED <<dict_used, changes, throughout, world>>
    /\ UNCHANGED <<executions, bot_handled, bot_sent, handled_count>>
    /\ UNCHANGED nonFanoutVars

\* Adapters/__init__.py:82-99: another thread starts the adapter of bot b
\* while the tick is at work: running_adapters[bot_id] = adapter
FanoutAdapterStarts(b) ==
    /\ fpc \in {"collect", "bots"}
    /\ changes < MaxChanges
    /\ b \notin world.running
    /\ world' = [world EXCEPT !.running = @ \cup {b}]
    /\ changes' = changes + 1
    /\ UNCHANGED <<fpc, dict_pos, dict_used, throughout, active_bots>>
    /\ UNCHANGED <<executions, bot_handled, bot_sent, handled_count>>
    /\ UNCHANGED nonFanoutVars

\* Adapters/__init__.py:101-112: another thread stops the adapter of bot b
\* while the tick is at work: del running_adapters[bot_id]
FanoutAdapterStops(b) ==
    /\ fpc \in {"collect", "bots"}
    /\ changes < MaxChanges
    /\ b \in world.running
    /\ world' = [world EXCEPT !.running = @ \ {b}]
    /\ throughout' = throughout \ {b}
    /\ changes' = changes + 1
    /\ UNCHANGED <<fpc, dict_pos, dict_used, active_bots>>
    /\ UNCHANGED <<executions, bot_handled, bot_sent, handled_count>>
    /\ UNCHANGED nonFanoutVars

\* lines 342-358: the engine is executed for the next bot; its result is
\* counted when handled, and nothing else is done with it
FanoutExecute(handled) ==
    /\ fpc = "bots"
    /\ active_bots # <<>>
    /\ LET b == Head(active_bots)
       IN  /\ executions' = [executions EXCEPT ![b] = @ + 1]
           /\ bot_handled' = [bot_handled EXCEPT ![b] = handled]
    /\ handled_count' = IF handled THEN handled_count + 1 ELSE handled_count
    /\ active_bots' = Tail(active_bots)
    /\ UNCHANGED <<fpc, dict_pos, dict_used, changes, throughout, world, bot_sent>>
    /\ UNCHANGED nonFanoutVars

\* lines 308-311, 336-339, 360-365: the execution logs its outcome and returns
FanoutDone ==
    /\ fpc = "bots"
    /\ active_bots = <<>>
    /\ fpc' = "done"
    /\ UNCHANGED <<dict_pos, dict_used, changes, throughout>>
    /\ UNCHANGED <<world, active_bots, executions, bot_handled, bot_sent, handled_count>>
    /\ UNCHANGED nonFanoutVars

\* the job's thread is free again
FanoutReturns ==
    /\ fpc = "done"
    /\ fpc' = "idle"
    /\ world' = NoWorld
    /\ executions' = [b \in FBots |-> 0]
    /\ bot_handled' = [b \in FBots |-> FALSE]
    /\ bot_sent' = [b \in FBots |-> 0]
    /\ handled_count' = 0
    /\ dict_pos' = 1
    /\ dict_used' = 0
    /\ changes' = 0
    /\ throughout' = {}
    /\ UNCHANGED active_bots
    /\ UNCHANGED nonFanoutVars

NextFanout ==
    \/ \E w \in Worlds : FanoutBegin(w)
    \/ FanoutIterate
    \/ \E b \in FBots : FanoutAdapterStarts(b)
    \/ \E b \in FBots : FanoutAdapterStops(b)
    \/ \E handled \in BOOLEAN : FanoutExecute(handled)
    \/ FanoutDone
    \/ FanoutReturns

(***************************************************************************)
(* OneBot V11 messages (src/Adapters/onebot/v11/message.py).  A string is  *)
(* a sequence of one-character strings.  A segment is a record of its type *)
(* and its data, the data a sequence of <<key, value>> pairs with distinct *)
(* keys in insertion order.  str(message) joins the CQ codes of the        *)
(* segments; OneBotMessage._construct parses such a string with the        *)
(* regular expression of lines 124-127.                                    *)
(***************************************************************************)
MaxText == 2         \* characters of a generated text
MaxSegs == 2         \* segments of a message

\* [a-zA-Z0-9-_.] of the regular expression
NameChars ==
    {
    "a", "b", "c", "d", "e", "f", "g", "h", "i", "j", "k", "l", "m",
    "n", "o", "p", "q", "r", "s", "t", "u", "v", "w", "x", "y", "z",
    "A", "B", "C", "D", "E", "F", "G", "H", "I", "J", "K", "L", "M",
    "N", "O", "P", "Q", "R", "S", "T", "U", "V", "W", "X", "Y", "Z",
    "0", "1", "2", "3", "4", "5", "6", "7", "8", "9", "-", "_", "."
    }
TextChars == {"a", "&", "[", "]", ","}

s_text == <<"t", "e", "x", "t">>
s_image == <<"i", "m", "a", "g", "e">>
s_file == <<"f", "i", "l", "e">>
s_at == <<"a", "t">>
s_qq == <<"q", "q">>
s_face == <<"f", "a", "c", "e">>
s_reply == <<"r", "e", "p", "l", "y">>
s_id == <<"i", "d">>
s_amp == <<"&", "a", "m", "p", ";">>
s_91 == <<"&", "#", "9", "1", ";">>
s_93 == <<"&", "#", "9", "3", ";">>
s_44 == <<"&", "#", "4", "4", ";">>
s_cq == <<"[", "C", "Q", ":">>

StartsWith(s, prefix) ==
    Len(s) >= Len(prefix) /\ SubSeq(s, 1, Len(prefix)) = prefix

RECURSIVE replace(_, _, _)
\* str.replace: every non-overlapping occurrence, from the left
replace(s, old, new) ==
    IF s = <<>> THEN <<>>
    ELSE IF StartsWith(s, old)
         THEN new \o replace(SubSeq(s, Len(old) + 1, Len(s)), old, new)
         ELSE <<Head(s)>> \o replace(Tail(s), old, new)

\* A serialisation that escapes nothing
NoEscape(s, escape_comma) == s

\* lines 14-19
escape(s, escape_comma) ==
    LET s1 == replace(replace(replace(s, <<"&">>, s_amp), <<"[">>, s_91), <<"]">>, s_93)
    IN  IF escape_comma THEN replace(s1, <<",">>, s_44) ELSE s1

\* lines 22-29
unescape(s) ==
    replace(replace(replace(replace(s, s_44, <<",">>), s_91, <<"[">>), s_93, <<"]">>),
            s_amp, <<"&">>)

RECURSIVE JoinParams(_)
\* lines 44-48: k=escape(v) of every item, joined by commas
JoinParams(data) ==
    IF data = <<>> THEN <<>>
    ELSE data[1][1] \o <<"=">> \o escape(data[1][2], TRUE)
         \o (IF Len(data) > 1 THEN <<",">> ELSE <<>>) \o JoinParams(Tail(data))

\* lines 39-49: OneBotMessageSegment.__str__
SegmentStr(seg) ==
    IF seg.type = s_text
    THEN escape(IF seg.data # <<>> THEN seg.data[1][2] ELSE <<>>, FALSE)
    ELSE LET params == JoinParams(seg.data)
         IN  s_cq \o seg.type \o (IF params # <<>> THEN <<",">> ELSE <<>>) \o params \o <<"]">>

RECURSIVE MessageStr(_)
\* BaseMessage.__str__ (src/Adapters/base/message.py:105-107)
MessageStr(message) ==
    IF message = <<>> THEN <<>>
    ELSE SegmentStr(Head(message)) \o MessageStr(Tail(message))

\* the last position of the longest run of characters of chars that starts
\* at position i (i - 1 when the run is empty)
RunEnd(s, i, chars) ==
    LET stops == {k \in i..Len(s) : s[k] \notin chars}
    IN  IF stops = {} THEN Len(s)
        ELSE (CHOOSE k \in stops : \A j \in stops : k <= j) - 1

ValueChars(s) == {s[k] : k \in 1..Len(s)} \ {",", "]"}

RECURSIVE Params(_, _)
\* line 126: (?:,[a-zA-Z0-9-_.]+=[^,\]]*)* from position i; the items
\* matched and the position after them
Params(s, i) ==
    LET key_end == RunEnd(s, i + 1, NameChars)
    IN  IF /\ i <= Len(s) /\ s[i] = ","
           /\ key_end >= i + 1
           /\ key_end + 1 <= Len(s) /\ s[key_end + 1] = "="
        THEN LET value_end == RunEnd(s, key_end + 2, ValueChars(s))
                 rest == Params(s, value_end + 1)
             IN  [items |-> <<<<SubSeq(s, i + 1, key_end),
                               SubSeq(s, key_end + 2, value_end)>>>> \o rest.items,
                  pos |-> rest.pos]
        ELSE [items |-> <<>>, pos |-> i]

\* lines 124-127: the match of the regular expression at position i
MatchAt(s, i) ==
    LET type_end == RunEnd(s, i + Len(s_cq), NameChars)
        params == Params(s, type_end + 1)
        close == IF params.pos <= Len(s) /\ s[params.pos] = ","
                 THEN params.pos + 1 ELSE params.pos
    IN  IF /\ StartsWith(SubSeq(s, i, Len(s)), s_cq)
           /\ type_end >= i + Len(s_cq)
           /\ close <= Len(s) /\ s[close] = "]"
        THEN [ok |-> TRUE, type |-> SubSeq(s, i + Len(s_cq), type_end),
              items |-> params.items, end |-> close]
        ELSE [ok |-> FALSE, type |-> <<>>, items |-> <<>>, end |-> i]

RECURSIVE iter_message(_, _, _)
\* lines 122-133: the texts between the matches and the matches, in order
iter_message(msg, i, text_begin) ==
    IF i > Len(msg)
    THEN <<[type |-> s_text, text |-> SubSeq(msg, text_begin, Len(msg)), items |-> <<>>]>>
    ELSE LET cqcode == MatchAt(msg, i)
         IN  IF cqcode.ok
             THEN <<[type |-> s_text, text |-> SubSeq(msg, text_begin, i - 1), items |-> <<>>],
                    [type |-> cqcode.type, text |-> <<>>, items |-> cqcode.items]>>
                  \o iter_message(msg, cqcode.end + 1, cqcode.end + 1)
             ELSE iter_message(msg, i + 1, text_begin)

RECURSIVE DataDict(_, _)
\* lines 141-146: data_dict[k] = unescape(v) for every item
DataDict(pairs, data_dict) ==
    IF pairs = <<>> THEN data_dict
    ELSE LET k == pairs[1][1]
             v == unescape(pairs[1][2])
             at == {n \in 1..Len(data_dict) : data_dict[n][1] = k}
         IN  DataDict(Tail(pairs),
                      IF at = {} THEN Append(data_dict, <<k, v>>)
                      ELSE [n \in 1..Len(data_dict) |->
                               IF n \in at THEN <<k, v>> ELSE data_dict[n]])

RECURSIVE Segments(_)
\* lines 135-147: an empty text is dropped, every other piece is a segment
Segments(pieces) ==
    IF pieces = <<>> THEN <<>>
    ELSE LET piece == Head(pieces)
         IN  (IF piece.type = s_text
              THEN (IF piece.text # <<>>
                    THEN <<[type |-> s_text, data |-> <<<<s_text, unescape(piece.text)>>>>]>>
                    ELSE <<>>)
              ELSE <<[type |-> piece.type, data |-> DataDict(piece.items, <<>>)]>>)
             \o Segments(Tail(pieces))

\* lines 109-149: OneBotMessage._construct
construct(msg) == Segments(iter_message(msg, 1, 1))

\* BaseMessageSegment.__eq__ (src/Adapters/base/message.py:59-62); two dicts
\* are equal when they hold the same items
SegmentEq(a, b) ==
    /\ a.type = b.type
    /\ {a.data[n] : n \in 1..Len(a.data)} = {b.data[n] : n \in 1..Len(b.data)}

\* list equality of two messages
MessageEq(a, b) ==
    /\ Len(a) = Len(b)
    /\ \A n \in 1..Len(a) : SegmentEq(a[n], b[n])

\* lines 51-73: the constructors text, image, at, face, reply
SegText(text) == [type |-> s_text, data |-> <<<<s_text, text>>>>]
SegImage(file) == [type |-> s_image, data |-> <<<<s_file, file>>>>]
SegAt(user_id) == [type |-> s_at, data |-> <<<<s_qq, user_id>>>>]
SegFace(id_) == [type |-> s_face, data |-> <<<<s_id, id_>>>>]
SegReply(id_) == [type |-> s_reply, data |-> <<<<s_id, id_>>>>]

\* the texts, file names and ids the messages are made of
StringsUpTo(n, chars) == UNION {[1..k -> chars] : k \in 0..n}
Texts == StringsUpTo(MaxText, TextChars) \cup {s_amp, s_91, s_44, <<"&">> \o s_91}
Files == StringsUpTo(1, TextChars) \cup {s_44}
Ids == {<<"1">>, <<"1", "2">>}
SegmentsOf ==
    {SegText(t) : t \in Texts} \cup {SegImage(f) : f \in Files}
    \cup {SegAt(u) : u \in Ids} \cup {SegFace(i) : i \in Ids} \cup {SegReply(i) : i \in Ids}
Messages == UNION {[1..k -> SegmentsOf] : k \in 0..MaxSegs}

InitCq ==
    /\ wpc = "idle"
    /\ wmsg = <<>>
    /\ wire = <<>>
    /\ parsed = <<>>

\* str(message)
Serialise(message) ==
    /\ wpc = "idle"
    /\ wmsg' = message
    /\ wire' = MessageStr(message)
    /\ wpc' = "wire"
    /\ UNCHANGED parsed
    /\ UNCHANGED nonCqVars

\* OneBotMessage._construct(wire)
Construct ==
    /\ wpc = "wire"
    /\ parsed' = construct(wire)
    /\ wpc' = "parsed"
    /\ UNCHANGED <<wmsg, wire>>
    /\ UNCHANGED nonCqVars

\* the next message
CqNext ==
    /\ wpc = "parsed"
    /\ wpc' = "idle"
    /\ wmsg' = <<>>
    /\ wire' = <<>>
    /\ parsed' = <<>>
    /\ UNCHANGED nonCqVars

NextCq ==
    \/ \E message \in Messages : Serialise(message)
    \/ Construct
    \/ CqNext

(***************************************************************************)
(* BaseNode.execute (src/Core/workflow/nodes/base.py:47-100): a node's     *)
(* _execute returns its result and _auto_save_outputs copies the declared  *)
(* outputs into the variables of the context.  The node is the storage     *)
(* node, which declares the outputs result and success and also returns an *)
(* error key (nodes/storage.py).  A map is a function on Keys whose value  *)
(* is Missing at the keys it does not hold; Python's None is the value     *)
(* "None".                                                                 *)
(***************************************************************************)
Keys == {"result", "success", "error"}
Values == {"None", "a", "b"}
Missing == "missing"
Maps == [Keys -> Values \cup {Missing}]
NoMap == [k \in Keys |-> Missing]

\* what _execute can return: a map, or something that is not a map
Results == [is_dict : {TRUE}, items : Maps] \cup {[is_dict |-> FALSE, items |-> NoMap]}

\* the outputs attribute of the node: the declared output names
output_names == {"result", "success"}

InitNode ==
    /\ variables = NoMap
    /\ node_result = [is_dict |-> FALSE, items |-> NoMap]

\* _auto_save_outputs, lines 81-100: for a map, set_variable(key, value) for
\* each item whose key is a declared output and whose value is not None
auto_save_outputs(vs, res) ==
    IF ~res.is_dict THEN vs
    ELSE [k \in Keys |->
             IF k \in output_names /\ res.items[k] \notin {Missing, "None"}
             THEN res.items[k] ELSE vs[k]]

\* execute, lines 47-66: _execute returns res, the outputs are saved
NodeExecute(res) ==
    /\ node_result' = res
    /\ variables' = auto_save_outputs(variables, res)
    /\ UNCHANGED nonNodeVars

\* WorkflowContext.__init__ (context.py:36-50): the next execution starts with
\* a fresh context
NewContext ==
    /\ variables # NoMap
    /\ variables' = NoMap
    /\ node_result' = [is_dict |-> FALSE, items |-> NoMap]
    /\ UNCHANGED nonNodeVars

NextNode ==
    \/ \E res \in Results : NodeExecute(res)
    \/ NewContext

(***************************************************************************)
(* Initial state and specifications.                                       *)
(***************************************************************************)
vars ==
    <<adapterVars, webhookVars, msgseqVars, engineVars, dispatchVars,
      schedulerVars, tokenVars, apiVars, cacheVars, storageVars,
      globalsVars, executeVars, fanoutVars, cqVars, nodeVars>>

Init ==
    /\ InitAdapter
    /\ InitWebhook
    /\ InitMsgSeq
    /\ InitEngine
    /\ InitDispatch
    /\ InitScheduler
    /\ InitToken
    /\ InitApi
    /\ InitCache
    /\ InitStorage
    /\ InitGlobals
    /\ InitExecute
    /\ InitFanout
    /\ InitCq
    /\ InitNode

SpecAdapter == Init /\ [][NextAdapter]_vars
SpecWebhook == Init /\ [][NextWebhook]_vars
SpecMsgSeq == Init /\ [][NextMsgSeq]_vars
SpecEngine == Init /\ [][NextEngine]_vars
SpecFlow == Init /\ [][NextFlow]_vars
SpecTermination == Init /\ [][NextTermination]_vars /\ WF_vars(NextEngine)
SpecDispatch == Init /\ [][NextDispatch]_vars
SpecScheduler == Init /\ [][NextScheduler]_vars
SpecToken == Init /\ [][NextToken]_vars
SpecApi == Init /\ [][NextApi]_vars
SpecCache == Init /\ [][NextCache]_vars
SpecStorage == Init /\ [][NextStorage]_vars
SpecGlobals == Init /\ [][NextGlobals]_vars
SpecExecute == Init /\ [][NextExecute]_vars
SpecFanout == Init /\ [][NextFanout]_vars
SpecCq == Init /\ [][NextCq]_vars
SpecNode == Init /\ [][NextNode]_vars

(***************************************************************************)
(* C1.  An adapter instance is live when it can deliver events to the      *)
(* handler: a OneBot adapter while its reader thread runs (it connects and *)
(* reconnects by itself), a QQ adapter while the webhook route finds it in *)
(* running_adapters.                                                       *)
(***************************************************************************)
Live(i) ==
    /\ i <= nInst
    /\ IF inst[i].protocol = "onebot"
       THEN inst[i].ws_alive
       ELSE running_adapters[inst[i].bot] = i

LiveInstances(b) == {i \in Insts : inst[i].bot = b /\ Live(i)}

\* C1: for every bot, at most one adapter instance is live at any time, for
\* every interleaving of start_adapter and stop_adapter calls, failed and
\* timed-out starts included.
C1_AtMostOneLiveAdapter == \A b \in Bots : Cardinality(LiveInstances(b)) <= 1

\* C2: for a non-empty event id, of the deliveries of one event that are handled
\* at the same time at most one gets past the dedup check to an event
\* processor; the others return duplicate.
C2_ConcurrentDeliveriesRoutedOnce ==
    \A r1, r2 \in Reqs :
        (r1 # r2 /\ req[r1].eid # "" /\ req[r1].eid = req[r2].eid)
            => ~(req[r1].pc \in {"record", "route"} /\ req[r2].pc \in {"record", "route"})

\* C3: when one message event is delivered again and again, one delivery after
\* the other, every delivery that arrives within 24 hours of the first finds
\* exactly one hand-off made: the first delivery is answered success, every
\* later one duplicate, whatever the calendar day.
C3_SequentialReplayOneHandoff ==
    \A r \in Reqs :
        LET e == req[r].eid
        IN  (/\ req[r].pc = "done"
             /\ req[r].reached = "handle_event"
             /\ e # ""
             /\ eventType(e) = "C2C_MESSAGE_CREATE"
             /\ ~overlapped[e]
             /\ req[r].delivery \in {"first", "replay"})
            => /\ handoffs[e] = 1
               /\ req[r].status = IF req[r].delivery = "first" THEN "success" ELSE "duplicate"

\* C4: a request reaches handle_event or gets the handshake reply only after
\* its signature was verified with the bot's secret, and every request whose
\* signature was not verified is answered 401 (a request that names no known
\* bot is turned away with 400 or 404 before there is a secret to verify with).
C4_VerifiedBeforeHandling ==
    \A r \in Reqs :
        /\ req[r].reached # "none" => req[r].verified
        /\ (req[r].pc = "done" /\ ~req[r].verified /\ req[r].code \notin {400, 404})
              => req[r].code = 401

\* C5: the values get_msg_seq returns for one msg_id are strictly increasing in
\* call order, so no (msg_id, msg_seq) pair is issued twice, however many other
\* msg_ids are used in between.
C5_MsgSeqStrictlyIncreasing ==
    \A i, j \in 1..Len(issued) : i < j => issued[i] < issued[j]

\* C6: in a run in which no foreach loop is entered no step is executed more
\* than once, and whenever control arrives, by advancing or by a next_node
\* jump, at a step whose id is in the visited set, the run stops there without
\* executing the step.
C6_NoStepTwiceWithoutLoop ==
    /\ [](~looped => \A i \in StepIds : executed[i] <= 1)
    /\ [][(Running /\ current_index \in visited_nodes)
            => (epc' = "done" /\ ended' = "cycle" /\ executed' = executed)]_vars

\* a run without a loop that a next_node jump led back to a visited step
C6_Witness ==
    /\ epc = "done"
    /\ ended = "cycle"
    /\ ~looped
    /\ \E i \in StepIds : executed[i] = 1 /\ current_index <= i

\* C7: for every event that is not a meta event the workflows executed are
\* exactly the cached workflows whose trigger_type is the event's kind, whose
\* protocols are empty or hold the event's protocol, to which the bot's owner
\* has an enabled subscription, and whose event_filter is empty or holds the
\* event's sub-name.
C7_ExecutedAreTheClaimedWorkflows ==
    dpc = "matched" =>
        workflows =
            {w \in Wfs :
                /\ d_in.cache[w].trigger_type = d_in.event.kind
                /\ (\/ d_in.cache[w].protocols = {}
                    \/ d_in.event.protocol \in d_in.cache[w].protocols)
                /\ w \in d_in.subscribed
                /\ (\/ d_in.cache[w].event_filter = {}
                    \/ d_in.event.sub_name \in d_in.cache[w].event_filter)}

C9_AtMostOneActiveExecution ==
    \A w \in SWfs : instances[w] <= 1

\* a run is active, a reload has re-installed its job during the run, and the
\* tick of the new job was not run
C9_Witness ==
    \E w \in SWfs :
        /\ instances[w] = 1
        /\ HasJob(jobstore, w)
        /\ reinstalled[w]
        /\ missed[w] = "reinstalled"

C11_StartStopExclusive ==
    \A t1, t2 \in Callers :
        ~(/\ cpc[t1] \in {"p_stop", "p_del"}
          /\ cpc[t2] \in {"s_check", "s_wait"}
          /\ cbot[t1] = cbot[t2])

\* C12: while the access token is inside the 60 s window before its expiry,
\* concurrent ensure_authenticated calls start at most one background refresh:
\* at no time are two token requests of refresh threads in flight together.
C12_OneRefreshInFlight ==
    access_token = "window" => Cardinality({k \in RThreads : rth[k] = "auth"}) <= 1

\* C13: when an API call has received no response frame with its echo within
\* the 5 s, it returns null and api_responses holds no entry for that echo
\* from then on, also after a late response frame with that echo arrives.
C13_NoEntryAfterTimeout ==
    \A e \in Echoes : call[e] = "timeout" => api_responses[e] = "none"

\* C14: when start() of the WebSocket adapter has failed because no connection
\* was established within the 10 s, the adapter is stopped with last_error
\* set: its reader thread and its event loop do not run any more, so it is not
\* connected afterwards.
C14_FailedStartLeavesNothingRunning ==
    \A i \in Insts :
        (inst[i].protocol = "onebot" /\ inst[i].last_error) =>
            (~inst[i].ws_alive /\ ~inst[i].loop_alive /\ ~inst[i].connected)

C16_WritesSerialised ==
    Cardinality({t \in Execs : spc[t] \in {"load", "save", "release"}}) <= 1

\* C17: once every concurrent set and delete call on the global variable
\* manager has completed, the KV entry workflow:globals equals the in-process
\* map.
C17_MirrorEqualsCache ==
    (\A c \in GCallers : gpc[c] = "idle") => g_kv = g_cache

\* C18: for a foreach step over a list of n >= 0 items the loop body is
\* executed exactly n times in one execution, once per item in list order with
\* the item variable bound to that item, whether or not next_node is set; for
\* an empty list the body is not executed.  Stated for the workflows that
\* begin with the foreach step, whose body is a send step after it, and that
\* have send and end steps only besides.
C18_BodyOncePerItem ==
    (/\ epc = "done" /\ ended \in {"end", "break"}
     /\ workflow_steps[1].type = "foreach"
     /\ workflow_steps[1].body \in 2..Len(workflow_steps)
     /\ workflow_steps[workflow_steps[1].body].type = "send"
     /\ \A i \in 2..Len(workflow_steps) : workflow_steps[i].type \in {"send", "end"})
        => seen_items[workflow_steps[1].body] = [i \in 1..items |-> i]

\* C19: when a send_message step is the body of a foreach over k items,
\* handling the event produces k outbound messages, one per item in list
\* order.  Stated for the workflow foreach, send_message, end in which the
\* foreach has the send step as its body and the end step as its next_node.
C19_OneMessagePerItem ==
    (/\ epc = "sent"
     /\ Len(workflow_steps) = 3
     /\ workflow_steps[1] = [type |-> "foreach", body |-> 2, next |-> 3]
     /\ workflow_steps[2].type = "send"
     /\ workflow_steps[3].type = "end")
        => outbound = [i \in 1..items |-> i]

\* C20, as the claim states it: after a condition step, if the result selects
\* a non-empty branch execution jumps to that step; if the result is true and
\* true_branch is empty, execution proceeds to the next step in list order; if
\* the result is false and false_branch is empty, the workflow aborts and no
\* later step is executed.
C20_ConditionAlwaysAdvances ==
    /\ [][(CanExecute /\ workflow_steps[current_index].type = "condition"
           /\ executed'[current_index] = executed[current_index] + 1)
          => LET step == workflow_steps[current_index]
                 selected == IF cond_result' THEN step.true_branch ELSE step.false_branch
             IN  /\ (selected # 0 /\ InIndexMap(selected)) =>
                        (epc' = "running" /\ current_index' = selected)
                 /\ (cond_result' /\ selected = 0) =>
                        (epc' = "running" /\ current_index' = current_index + 1)
                 /\ (~cond_result' /\ selected = 0) =>
                        (epc' = "done" /\ ended' = "break")]_vars
    /\ [][epc = "done" => executed' = executed \/ epc' = "idle"]_vars

\* C20, amended: as above, but a true result with an empty true_branch returns
\* to the enclosing foreach when the step ends the loop body, and proceeds to
\* the next step in list order otherwise.
C20_ConditionBranches ==
    /\ [][(CanExecute /\ workflow_steps[current_index].type = "condition"
           /\ executed'[current_index] = executed[current_index] + 1)
          => LET step == workflow_steps[current_index]
                 selected == IF cond_result' THEN step.true_branch ELSE step.false_branch
                 returns == /\ loop_stack # <<>>
                            /\ should_return(current_index,
                                             visited_nodes \cup {current_index})
             IN  /\ (selected # 0 /\ InIndexMap(selected)) =>
                        (epc' = "running" /\ current_index' = selected)
                 /\ (cond_result' /\ selected = 0 /\ ~returns) =>
                        (epc' = "running" /\ current_index' = current_index + 1)
                 /\ (cond_result' /\ selected = 0 /\ returns) =>
                        (/\ epc' = "running"
                         /\ current_index' = loop_stack[Len(loop_stack)].foreach_index)
                 /\ (~cond_result' /\ selected = 0) =>
                        (epc' = "done" /\ ended' = "break")]_vars
    /\ [][epc = "done" => executed' = executed \/ epc' = "idle"]_vars

\* a condition step with no true_branch, the last step of a loop body, came
\* out true and control is back at the foreach
C20_Witness ==
    /\ epc = "running"
    /\ Len(workflow_steps) = 2
    /\ workflow_steps[1].type = "foreach"
    /\ workflow_steps[1].body = 2
    /\ workflow_steps[2].type = "condition"
    /\ workflow_steps[2].true_branch = 0
    /\ cond_result
    /\ executed[2] = 1
    /\ current_index = 1
    /\ loop_stack = <<>>

\* C21: when a step returns stop_sequence: true the engine breaks after that
\* step: no further step of the workflow is executed in that run.
C21_StopSequenceBreaks ==
    [][(stop_sequence /\ epc = "running") => executed' = executed]_vars

\* C22: when a step raises, the engine records the failure, performs the
\* step's on_fail action if one is declared, and continues with the step at
\* the next list index; a step failure alone never ends the run.
C22_FailureContinues ==
    [][failures' = failures + 1 =>
          /\ epc' = "running"
          /\ current_index' = current_index + 1
          /\ workflow_steps[current_index].on_fail => response' = -2]_vars

\* C23: execute never propagates an exception: an exception raised inside it
\* is caught, handled=false is returned, and a debug record with status error
\* that describes this execution is saved for the workflow.
C23_ExceptionCaughtAndRecorded ==
    [][\A x \in Runs :
          (xpc[x] = "except" /\ xpc'[x] = "returned") =>
              /\ xret'[x] = "error"
              /\ debug_record' = [run |-> x, status |-> "error"]]_vars

\* C24: if the workflow's protocols allowlist is non-empty and does not
\* contain the event's protocol, execute returns handled=false and no step of
\* the workflow is executed.
C24_ProtocolNotAllowed ==
    \A x \in Runs :
        (/\ xpc[x] \notin {"idle", "checks"}
         /\ engine.protocols # {}
         /\ xev[x].protocol \notin engine.protocols)
            => (xpc[x] = "returned" /\ xret[x] = "unhandled" /\ xsteps[x] = 0)

\* an event of a protocol outside the allowlist, with a message, was returned
C24_Witness ==
    \E x \in Runs :
        /\ xpc[x] = "returned"
        /\ engine.protocols = {"onebot"}
        /\ xev[x] = [protocol |-> "qq", has_message |-> TRUE]
        /\ xret[x] = "unhandled"

C26_OneExecutionPerSubscribedBot ==
    (fpc = "done" /\ world.query_ok) =>
        \A b \in FBots :
            executions[b] = IF /\ b \in world.running
                               /\ b \in world.is_active
                               /\ world.owner[b] \in world.subscribed
                            THEN 1 ELSE 0

\* C27: when a scheduled execution for a bot produces a response, that
\* response is sent as an outbound message through that bot.
C27_ScheduledResponseIsSent ==
    fpc = "done" => \A b \in FBots : bot_handled[b] => bot_sent[b] = 1

\* C28 (as stated): parsing the CQ-code serialisation of a message of text,
\* image, at, face and reply segments yields a message equal to the original.
C28_RoundTrip ==
    wpc = "parsed" => MessageEq(parsed, wmsg)

RECURSIVE MergeTexts(_)
\* the message with every run of adjacent text segments made one text segment
\* and the empty text segments removed
MergeTexts(message) ==
    IF message = <<>> THEN <<>>
    ELSE LET seg == Head(message)
             rest == MergeTexts(Tail(message))
         IN  IF seg.type # s_text THEN <<seg>> \o rest
             ELSE IF rest # <<>> /\ rest[1].type = s_text
                  THEN <<SegText(seg.data[1][2] \o rest[1].data[1][2])>> \o Tail(rest)
                  ELSE IF seg.data[1][2] = <<>> THEN rest ELSE <<seg>> \o rest

\* a message without an empty text segment and without two adjacent text
\* segments
Canonical(message) ==
    /\ \A n \in 1..Len(message) :
           message[n].type = s_text => message[n].data[1][2] # <<>>
    /\ \A n \in 1..(Len(message) - 1) :
           ~(message[n].type = s_text /\ message[n + 1].type = s_text)

\* C28 (amended): parsing the serialisation yields the original message with
\* adjacent text segments merged and empty text segments removed, and hence
\* the original itself when it has neither.
C28_RoundTripUpToTextMerging ==
    wpc = "parsed" =>
        /\ MessageEq(parsed, MergeTexts(wmsg))
        /\ Canonical(wmsg) => MessageEq(parsed, wmsg)

\* a text with '&' and '[' followed by an image whose file name is a comma,
\* parsed back to the same two segments
C28_Witness ==
    /\ wpc = "parsed"
    /\ wmsg = <<SegText(<<"&", "[">>), SegImage(<<",">>)>>
    /\ MessageEq(parsed, wmsg)

\* the msg_ids of the table t that the table u no longer holds
Evicted(t, u) == {t[i].id : i \in 1..Len(t)} \ {u[i].id : i \in 1..Len(u)}

\* C29 (as stated): the counter table is an LRU bounded at about 100 entries:
\* the msg_id an insertion evicts is the one least recently passed to
\* get_msg_seq, hence never the msg_id of the latest call before the
\* insertion while the table holds other msg_ids.
C29_EvictsLeastRecentlyUsed ==
    [][\A id \in Evicted(msg_counters, msg_counters') :
           Len(msg_counters) > 1 => id # last_id]_vars

\* C29 (amended): the counter table is a FIFO bounded at 100 entries: it never
\* holds more than max_msg_ids counters after a call, and the msg_id an
\* insertion evicts is the one whose counter was created first, whenever it
\* was last passed to get_msg_seq.
C29_EvictsFirstInserted ==
    [][/\ Len(msg_counters') <= max_msg_ids
       /\ \A id \in Evicted(msg_counters, msg_counters') : id = msg_counters[1].id]_vars

\* msg_id 0 was passed twice while it had a counter and has been evicted,
\* the msg_ids that came after it still have their counters
C29_Witness ==
    /\ issued = <<1, 2>>
    /\ ~HasCounter(msg_counters, 0)
    /\ Len(msg_counters) = max_msg_ids
    /\ msg_counters[1].id = 1

\* C30: every workflow execution terminates: the interpreter loop executes
\* only finitely many steps.  The loop goes on from its state alone, so a run
\* that terminates is never, after further steps, in a state it was in before.
C30_NoStateTwice ==
    ~(/\ epc = "running"
      /\ snapshot # NoSnapshot
      /\ TotalExecuted > snapshot.at
      /\ InterpreterState = snapshot.state)

\* execution x of the engine records a step in this step
RecordsNode(x) == xpc[x] = "nodes" /\ xsteps'[x] = xsteps[x] + 1

\* execution x of the engine finishes and saves a recorder in this step
FinishesRecorder(x) ==
    /\ xpc'[x] = "returned"
    /\ \/ xpc[x] = "except"
       \/ xpc[x] = "result" /\ has_response(xresp[x])

\* C31: when the same cached workflow is executed concurrently for two
\* events, an execution records its steps into, and finishes and saves, its
\* own recorder and never the recorder of another execution.
C31_OwnRecorder ==
    [][\A x \in Runs :
           (engine.workflow_id /\ (RecordsNode(x) \/ FinishesRecorder(x)))
               => debug_recorder = x]_vars

\* caller t returns success from start_adapter in this step
StartReturnsOk(t) ==
    /\ cpc[t] \in {"s_check", "s_wait"}
    /\ cpc'[t] = "idle"
    /\ cret'[t] = "ok"

\* C32: whenever start_adapter returns success for a bot, an adapter for that
\* bot is registered in running_adapters and is running at the moment of
\* return, also when the call found an adapter whose run loop had crashed or
\* which is being stopped.
C32_StartedMeansRunning ==
    [][\A t \in Callers :
           StartReturnsOk(t) =>
               /\ running_adapters'[cbot[t]] # 0
               /\ inst'[running_adapters'[cbot[t]]].running]_vars

\* C33: when several API calls are outstanding on one WebSocket adapter, each
\* call returns the data of the response frame whose echo equals its own echo
\* and never the response to another call, for any arrival order of the
\* response frames.
C33_OwnResponse ==
    \A e \in Echoes : call[e] = "data" => returned[e] = e

\* two calls are outstanding; the response to the second has arrived and has
\* been returned to it before the response to the first arrives
C33_Witness ==
    /\ call[1] = "waiting" /\ ~answered[1]
    /\ call[2] = "data" /\ returned[2] = 2

\* C34: if a step inside a foreach body raises while one item is processed,
\* the loop still iterates over all remaining items: where a step that
\* succeeds goes back to the foreach for the next item, a step that raises
\* while items remain and leaves the run going goes back to it as well.
C34_RaiseKeepsIterating ==
    [][(/\ failures' = failures + 1
        /\ epc' = "running"
        /\ loop_stack # <<>>
        /\ loop_state # -1 /\ loop_state < items
        /\ should_return(current_index, visited_nodes \cup {current_index}))
           => current_index' = loop_stack[Len(loop_stack)].foreach_index]_vars

\* C35: if reload of the workflow cache fails part-way, by an exception while
\* a workflow is loaded, the cache still holds the complete list it held
\* before that reload.
C35_FailedReloadKeepsList ==
    [][(cache_pc = "load" /\ cache_pc' = "idle") => cache_workflows' = cache_before]_vars

\* C36: a scheduler tick that runs while another thread starts or stops some
\* adapter still executes the workflow for every subscribed bot whose adapter
\* is running throughout the tick.  Stated for the ticks whose queries succeed
\* and the adapters whose bot attribute is set.
C36_TickCoversRunningBots ==
    (fpc = "done" /\ world.query_ok /\ changes > 0) =>
        \A b \in throughout :
            (b \in world.is_active /\ world.owner[b] \in world.subscribed /\ b \in world.has_bot)
                => executions[b] = 1

\* C37: at every point of a workflow execution, the context's response is
\* non-null if and only if variables['_handled'] is true.
C37_ResponseIffHandled ==
    \A x \in Runs : xpc[x] \in {"nodes", "result", "except"} => (xresp[x] <=> xhandled[x])

\* the value a read of the variable gives: None when the key is absent
ReadVariable(k) == IF variables[k] = Missing THEN "None" ELSE variables[k]

\* C38: after any step's _execute returns a map, for every declared output
\* name that is a key of the map, context.variables[name] equals the value
\* returned for that key, so that a later run of the same node never leaves
\* the value of an earlier run in place.
C38_OutputsAreSaved ==
    node_result.is_dict =>
        \A k \in output_names :
            node_result.items[k] # Missing => ReadVariable(k) = node_result.items[k]

====
